---- MODULE Spec2Model ----
(***************************************************************************)
(* Model of the recipe-extraction and nutrition-estimation edge function   *)
(* (supabase/functions/extract-recipe, listed in PROJECT_OVERVIEW.md) of    *)
(* family-meal-prep.                                                       *)
(*                                                                         *)
(* The specifications of the edge function share the variables:           *)
(*   Spec       the serve handler, one request from body to response       *)
(*   ParseSpec  parseIngredient applied to bounded ingredient lines        *)
(*   AggSpec    calcFromIngredients with its concurrent USDA lookups       *)
(* The client side (utils/nutrition.ts and the hooks) has its own          *)
(* variables and specifications, introduced with the code they model.      *)
(*                                                                         *)
(* Conventions.  A JS string that the code tokenizes is a sequence of      *)
(* tokens (the pieces between white space); a token carries its text and   *)
(* what the code's regular expressions and parseFloat see in it.  JS       *)
(* numbers are exact rationals <<n, d>>, d > 0, in lowest terms.  null and *)
(* undefined are the empty tuple <<>>, a present value x is <<x>>.         *)
(***************************************************************************)
EXTENDS Integers, Sequences, FiniteSets, TLC

VARIABLES
    pc,         \* handler: position in the serve handler
    req,        \* handler: the request body as received
    page,       \* handler: the fetched page (what each selector / scan finds)
    recipe,     \* handler: `recipe`, the JSON-LD Recipe node or null
    extracted,  \* handler: `extracted`, the DOM strategies' ExtractionResult or null
    pending,    \* handler: the success body waiting for calcFromIngredients
    resp,       \* handler: the Response returned, <<>> while none
    log,        \* handler: history of strategies run and external calls made
    pLine,      \* parser: the ingredient line given to parseIngredient
    pOut,       \* parser: <<>> before the call, <<result>> after it
    aPc,        \* aggregator: position in calcFromIngredients
    aIngs,      \* aggregator: the `ingredients` argument
    aServ,      \* aggregator: the `servingsStr` argument
    aParsed,    \* aggregator: `parsed`, the ParsedIngredients
    aLookups,   \* aggregator: per parsed ingredient, state of its lookup promise
    aOrder,     \* aggregator: the order in which the lookups settled
    aOut,       \* aggregator: <<>> until the NutritionResult is returned
    dPlan,      \* getDayNutrition: the `dayPlan` argument, its meals in key order
    dRecipes,   \* getDayNutrition: the `recipes` argument
    dOut,       \* getDayNutrition: <<>> before the call, <<totals>> after it
    wLogs,      \* useWeightLog: `logs`
    wLoading,   \* useWeightLog: `loading`
    wError,     \* useWeightLog: `error`
    wDb,        \* useWeightLog: the user's rows of weight_logs in the backend
    wOps,       \* useWeightLog: the calls of the hook made so far, in call order
    wNext,      \* useWeightLog: the id the backend gives the next inserted row
    mPlan,      \* useMealPlan: `plan`, per slot of the week the meal or none
    mLoading,   \* useMealPlan: `loading`
    mSaving,    \* useMealPlan: `saving`
    mError,     \* useMealPlan: `error`
    mDb,        \* useMealPlan: the user's rows of meal_plans in the backend
    mOps,       \* useMealPlan: the calls of the hook made so far, in call order
    mNext,      \* useMealPlan: the id the backend gives the next inserted row
    sItems,     \* useShoppingList: `items`
    sLoading,   \* useShoppingList: `loading`
    sError,     \* useShoppingList: `error`
    sDb,        \* useShoppingList: the family's rows of shopping_items in the backend
    sOps,       \* useShoppingList: the calls of the hook made so far, in call order
    sEvents,    \* useShoppingList: realtime events published and not yet delivered
    sNext,      \* useShoppingList: the id the backend gives the next inserted row
    sOther,     \* useShoppingList: the number of changes other members have made
    twin        \* handler: a second invocation, suspended (TwinSpec)

dayVars == <<dPlan, dRecipes, dOut>>
weightVars == <<wLogs, wLoading, wError, wDb, wOps, wNext>>
mealVars == <<mPlan, mLoading, mSaving, mError, mDb, mOps, mNext>>
shopVars == <<sItems, sLoading, sError, sDb, sOps, sEvents, sNext, sOther>>
twinVars == <<twin>>
appVars == <<dayVars, weightVars, mealVars, shopVars, twinVars>>

vars == <<pc, req, page, recipe, extracted, pending, resp, log,
          pLine, pOut, aPc, aIngs, aServ, aParsed, aLookups, aOrder, aOut, appVars>>

handlerVars == <<pc, req, page, recipe, extracted, pending, resp, log>>
parseVars == <<pLine, pOut>>
aggVars == <<aPc, aIngs, aServ, aParsed, aLookups, aOrder, aOut>>

Null == <<>>
Some(x) == <<x>>

\* the client side is not running
DayIdle == dPlan = <<>> /\ dRecipes = <<>> /\ dOut = Null
WeightIdle ==
    /\ wLogs = <<>> /\ wLoading = FALSE /\ wError = Null /\ wDb = {} /\ wOps = <<>>
    /\ wNext = 0
MealIdle ==
    /\ mPlan = <<>> /\ mLoading = FALSE /\ mSaving = FALSE /\ mError = Null /\ mDb = {}
    /\ mOps = <<>> /\ mNext = 0
ShopIdle ==
    /\ sItems = <<>> /\ sLoading = FALSE /\ sError = Null /\ sDb = {} /\ sOps = <<>>
    /\ sEvents = <<>> /\ sNext = 0 /\ sOther = 0
TwinIdle == twin = Null
AppIdle == DayIdle /\ WeightIdle /\ MealIdle /\ ShopIdle /\ TwinIdle

(***************************************************************************)
(* JS numbers as exact rationals.                                          *)
(***************************************************************************)
RECURSIVE GCD(_, _)
GCD(a, b) == IF b = 0 THEN a ELSE GCD(b, a % b)

Abs(x) == IF x < 0 THEN -x ELSE x

Rat(n, d) ==
    LET g == GCD(Abs(n), d)
    IN  IF n < 0 THEN <<-(Abs(n) \div g), d \div g>> ELSE <<n \div g, d \div g>>

RInt(n) == <<n, 1>>
RAdd(a, b) == Rat(a[1] * b[2] + b[1] * a[2], a[2] * b[2])
RMul(a, b) == Rat(a[1] * b[1], a[2] * b[2])
\* a / b for b # 0
RDiv(a, b) ==
    IF b[1] < 0 THEN Rat(-(a[1] * b[2]), a[2] * (-b[1])) ELSE Rat(a[1] * b[2], a[2] * b[1])
RLess(a, b) == a[1] * b[2] < b[1] * a[2]

(***************************************************************************)
(* Tokens of an ingredient line.  k is what the token looks like:          *)
(*   "num"    digits with an optional decimal point and an optional        *)
(*            leading "-", value n/d                       "2" "1.5" "-2"  *)
(*   "frac"   digits/digits, numerator n, denominator d          "1/2"     *)
(*   "range"  digits-digits in one token, from n to d            "1-2"     *)
(*   "dash"   a lone "-"                                                   *)
(*   "open"   "(" followed by a number n/d                       "(15"     *)
(*   "close"  a unit word followed by ")", w the unit            "oz)"     *)
(*   "word"   anything else, w the word, p a trailing "," or ""            *)
(* t is the token's text without the trailing punctuation p.               *)
(***************************************************************************)
Tok(k, t, n, d, p) == [k |-> k, t |-> t, n |-> n, d |-> d, p |-> p]
Word(w) == Tok("word", w, 0, 1, "")
WordC(w) == Tok("word", w, 0, 1, ",")

\* String.prototype.toLowerCase on the words of the vocabulary
Lower(w) ==
    CASE w = "Flour" -> "flour"
      [] w = "Cups" -> "cups"
      [] w = "Black" -> "black"
      [] w = "Eggs" -> "eggs"
      [] w = "TO" -> "to"
      [] w = "Optional" -> "optional"
      [] w = "Can" -> "can"
      [] w = "OZ" -> "oz"
      [] OTHER -> w

\* parseFloat(s): the longest numeric prefix of the string, which lies
\* inside the first token; NaN (Null) when the string starts with none
parseFloat(ts) ==
    IF ts = <<>> THEN Null
    ELSE LET t == ts[1]
         IN  CASE t.k = "num" -> Some(Rat(t.n, t.d))
               [] t.k \in {"frac", "range"} -> Some(RInt(t.n))
               [] OTHER -> Null

FracIdx(ts) == {i \in 1..Len(ts) : ts[i].k = "frac"}

\* parseFraction(s): s.split('/') has two parts when s holds one '/';
\* parseFloat of the part before it and of the part after it
parseFraction(ts) ==
    IF Cardinality(FracIdx(ts)) # 1 THEN Null
    ELSE LET i == CHOOSE j \in FracIdx(ts) : TRUE
             num == IF i = 1 THEN Some(RInt(ts[1].n)) ELSE parseFloat(ts)
             den == ts[i].d
         IN  IF num # Null /\ den # 0 THEN Some(RDiv(num[1], RInt(den))) ELSE Null

IsTo(t) == t.k = "word" /\ Lower(t.t) = "to" /\ t.p = ""

parseQuantity(ts) ==
    LET rangeMatch ==
            IF Len(ts) = 1 /\ ts[1].k = "range"
            THEN Some(<<RInt(ts[1].n), RInt(ts[1].d)>>)
            ELSE IF Len(ts) = 3 /\ ts[1].k = "num" /\ ts[3].k = "num"
                    /\ ts[1].n >= 0 /\ ts[3].n >= 0
                    /\ (ts[2].k = "dash" \/ IsTo(ts[2]))
            THEN Some(<<Rat(ts[1].n, ts[1].d), Rat(ts[3].n, ts[3].d)>>)
            ELSE Null
        mixedMatch ==
            IF Len(ts) = 2 /\ ts[1].k = "num" /\ ts[1].n >= 0 /\ ts[2].k = "frac"
            THEN Some(<<Rat(ts[1].n, ts[1].d), parseFraction(<<ts[2]>>)>>)
            ELSE Null
    IN  IF rangeMatch # Null
        THEN Some(RDiv(RAdd(rangeMatch[1][1], rangeMatch[1][2]), RInt(2)))
        ELSE IF mixedMatch # Null /\ mixedMatch[1][2] # Null
        THEN Some(RAdd(mixedMatch[1][1], mixedMatch[1][2][1]))
        ELSE IF FracIdx(ts) # {} /\ parseFraction(ts) # Null
        THEN parseFraction(ts)
        ELSE parseFloat(ts)

(***************************************************************************)
(* Static tables.                                                          *)
(***************************************************************************)
UnitKeys ==
    {"g", "gram", "grams", "mg", "kg", "oz", "lb", "pound", "pounds",
     "ml", "l", "cup", "cups", "tbsp", "tablespoon", "tablespoons",
     "tsp", "teaspoon", "teaspoons", "fl oz", "pint", "quart",
     "large", "medium", "small", "clove", "cloves", "bunch", "slice", "slices",
     "piece", "pieces", "stalk", "stalks", "sprig", "sprigs", "strip", "strips"}

\* Unit -> gram weight; UNIT_G[u] for a key u of the table
UNIT_G(u) ==
    CASE u \in {"g", "gram", "grams", "ml"} -> RInt(1)
      [] u = "mg" -> Rat(1, 1000)
      [] u \in {"kg", "l"} -> RInt(1000)
      [] u = "oz" -> Rat(2835, 100)
      [] u \in {"lb", "pound", "pounds"} -> Rat(45359, 100)
      [] u \in {"cup", "cups"} -> RInt(240)
      [] u \in {"tbsp", "tablespoon", "tablespoons"} -> RInt(15)
      [] u \in {"tsp", "teaspoon", "teaspoons", "clove", "cloves", "sprig", "sprigs"} -> RInt(5)
      [] u = "fl oz" -> RInt(30)
      [] u = "pint" -> RInt(473)
      [] u = "quart" -> RInt(946)
      [] u = "large" -> RInt(50)
      [] u = "medium" -> RInt(35)
      [] u \in {"small", "strip", "strips"} -> RInt(25)
      [] u = "bunch" -> RInt(80)
      [] u \in {"slice", "slices"} -> RInt(30)
      [] u \in {"piece", "pieces", "stalk", "stalks"} -> RInt(40)

unitGAlwaysDefault(u, dflt) == dflt
\* UNIT_G[u] ?? dflt
UnitGOr(u, dflt) == IF u \in UnitKeys THEN UNIT_G(u) ELSE dflt

\* Food-specific grams per cup, in the table's (insertion) order
DENSITY_PER_CUP ==
    << <<<<"flour">>, 125>>, <<<<"all-purpose", "flour">>, 125>>,
       <<<<"bread", "flour">>, 130>>, <<<<"cake", "flour">>, 114>>,
       <<<<"almond", "flour">>, 112>>, <<<<"whole", "wheat", "flour">>, 130>>,
       <<<<"cocoa", "powder">>, 85>>, <<<<"bread", "crumbs">>, 120>>,
       <<<<"breadcrumbs">>, 120>>,
       <<<<"sugar">>, 200>>, <<<<"brown", "sugar">>, 220>>,
       <<<<"powdered", "sugar">>, 120>>, <<<<"granulated", "sugar">>, 200>>,
       <<<<"butter">>, 227>>, <<<<"olive", "oil">>, 216>>, <<<<"oil">>, 218>>,
       <<<<"vegetable", "oil">>, 218>>, <<<<"coconut", "oil">>, 218>>,
       <<<<"honey">>, 340>>, <<<<"maple", "syrup">>, 322>>, <<<<"agave">>, 340>>,
       <<<<"rice">>, 185>>, <<<<"rolled", "oats">>, 90>>, <<<<"oats">>, 90>>,
       <<<<"milk">>, 245>>, <<<<"cream">>, 240>>, <<<<"yogurt">>, 245>>,
       <<<<"sour", "cream">>, 230>> >>

VOLUME_UNITS ==
    {"ml", "l", "cup", "cups", "tbsp", "tablespoon", "tablespoons",
     "tsp", "teaspoon", "teaspoons", "fl oz", "pint", "quart"}

\* Words of the vocabulary that hold another word as a proper substring:
\* <<w, k, where>>, k occurring in w at its "start", "end" or "inside"
SubWords ==
    {<<"boiled", "oil", "inside">>, <<"flours", "flour", "start">>,
     <<"buttermilk", "milk", "end">>, <<"buttermilk", "butter", "start">>}

WordHas(w, k) == w = k \/ \E x \in SubWords : x[1] = w /\ x[2] = k
WordEnds(w, k) == w = k \/ <<w, k, "end">> \in SubWords
WordStarts(w, k) == w = k \/ <<w, k, "start">> \in SubWords

\* foodName.includes(key): the key's words in a row somewhere in the name
Includes(food, key) ==
    \E i \in 1..(Len(food) - Len(key) + 1) :
        IF Len(key) = 1 THEN WordHas(food[i], key[1])
        ELSE /\ WordEnds(food[i], key[1])
             /\ WordStarts(food[i + Len(key) - 1], key[Len(key)])
             /\ \A j \in 2..(Len(key) - 1) : food[i + j - 1] = key[j]

(***************************************************************************)
(* parseIngredient                                                         *)
(***************************************************************************)
RECURSIVE FoodWords(_, _)
\* tokens.join(' ').split(/[,;]/)[0].trim(): the texts up to the first comma,
\* lower-cased when lc
FoodWords(ts, lc) ==
    IF ts = <<>> THEN <<>>
    ELSE LET t == ts[1]
             txt == IF lc THEN Lower(t.t) ELSE t.t
             here == IF txt = "" THEN <<>> ELSE <<txt>>
         IN  IF t.p = "," THEN here ELSE here \o FoodWords(Tail(ts), lc)

SkipWordsCaseSensitive(ts) ==
    \/ \E i \in 1..Len(ts) : ts[i].k = "word" /\ ts[i].t = "optional"
    \/ \E i \in 1..(Len(ts) - 1) :
          /\ ts[i].k = "word" /\ ts[i].p = "" /\ ts[i + 1].k = "word"
          /\ <<ts[i].t, ts[i + 1].t>> \in {<<"to", "taste">>, <<"as", "needed">>}
\* /\b(to taste|as needed|optional)\b/i.test(str)
SkipWords(ts) ==
    \/ \E i \in 1..Len(ts) : ts[i].k = "word" /\ Lower(ts[i].t) = "optional"
    \/ \E i \in 1..(Len(ts) - 1) :
          /\ ts[i].k = "word" /\ ts[i].p = "" /\ ts[i + 1].k = "word"
          /\ <<Lower(ts[i].t), Lower(ts[i + 1].t)>> \in {<<"to", "taste">>, <<"as", "needed">>}

IsCountTok(t) == t.k \in {"num", "frac", "range", "dash"}
IsContainer(t) ==
    t.k = "word" /\ t.p = "" /\ Lower(t.t) \in {"can", "cans", "jar", "jars", "bottle", "bottles"}

\* The index of the "(size" token when the line matches
\* /^([\d\s/.-]+)\s*\(\s*([\d.]+)\s*(oz|g|ml|lb)\s*\)\s*(?:can|jar|bottle)s?\s+(.+)/i, else 0
canMatch(ts) ==
    LET S == {i \in 2..(Len(ts) - 3) :
                /\ \A j \in 1..(i - 1) : IsCountTok(ts[j])
                /\ ts[i].k = "open"
                /\ ts[i + 1].k = "close" /\ Lower(ts[i + 1].t) \in {"oz", "g", "ml", "lb"}
                /\ IsContainer(ts[i + 2])}
    IN  IF S = {} THEN 0 ELSE CHOOSE i \in S : TRUE

\* The quantity loop: the longest of the first 3, 2, 1 tokens that
\* parseQuantity accepts; <<qty, unitStartIdx>> or Null
RECURSIVE QtyLoop(_, _)
QtyLoop(ts, len) ==
    IF len < 1 THEN Null
    ELSE LET q == parseQuantity(SubSeq(ts, 1, len))
         IN  IF q # Null THEN Some(<<q[1], len>>) ELSE QtyLoop(ts, len - 1)

Min(a, b) == IF a < b THEN a ELSE b

\* The unit after the quantity: <<unit, foodStartIdx>> (0-based indexes as in the code)
UnitAt(ts, unitStartIdx) ==
    LET has1 == unitStartIdx + 1 <= Len(ts) /\ ts[unitStartIdx + 1].t # ""
        has2 == unitStartIdx + 2 <= Len(ts) /\ ts[unitStartIdx + 2].t # ""
        t1 == ts[unitStartIdx + 1]
        t2 == ts[unitStartIdx + 2]
        twoWord == has1 /\ has2 /\ t1.k = "word" /\ t2.k = "word" /\ t1.p = "" /\ t2.p = ""
                   /\ Lower(t1.t) = "fl" /\ Lower(t2.t) = "oz"
        oneWord == has1 /\ t1.k = "word" /\ Lower(t1.t) \in UnitKeys
    IN  IF twoWord THEN <<"fl oz", unitStartIdx + 2>>
        ELSE IF oneWord THEN <<Lower(t1.t), unitStartIdx + 1>>
        ELSE <<"piece", unitStartIdx>>

RECURSIVE DensityFrom(_, _)
\* the first key of DENSITY_PER_CUP, from index i on, that foodName includes
DensityFrom(food, i) ==
    IF i > Len(DENSITY_PER_CUP) THEN Null
    ELSE IF Includes(food, DENSITY_PER_CUP[i][1]) THEN Some(DENSITY_PER_CUP[i][2])
    ELSE DensityFrom(food, i + 1)

GramWeight(qty, unit, foodName) ==
    LET dens == DensityFrom(foodName, 1)
    IN  IF unit \in VOLUME_UNITS /\ dens # Null
        THEN RMul(RMul(qty, RDiv(UnitGOr(unit, RInt(240)), RInt(240))), RInt(dens[1]))
        ELSE RMul(qty, UnitGOr(unit, RInt(1)))

parseIngredient(ts) ==
    IF SkipWords(ts) THEN Null
    ELSE IF canMatch(ts) # 0
    THEN LET i == canMatch(ts)
             c == parseQuantity(SubSeq(ts, 1, i - 1))
             count == IF c = Null THEN RInt(1) ELSE c[1]
             size == Rat(ts[i].n, ts[i].d)
             unitG == UnitGOr(Lower(ts[i + 1].t), RInt(1))
             food == FoodWords(SubSeq(ts, i + 3, Len(ts)), FALSE)
         IN  Some([gramWeight |-> RMul(RMul(count, size), unitG), foodName |-> food])
    ELSE LET ql == QtyLoop(ts, Min(3, Len(ts)))
         IN  IF ql = Null THEN Null
             ELSE LET qty == ql[1][1]
                      ua == UnitAt(ts, ql[1][2])
                      foodName == FoodWords(SubSeq(ts, ua[2] + 1, Len(ts)), TRUE)
                  IN  IF foodName = <<>> THEN Null
                      ELSE Some([gramWeight |-> GramWeight(qty, ua[1], foodName),
                                 foodName |-> foodName])

(***************************************************************************)
(* ParseSpec: parseIngredient on every line of at most MaxTokens tokens    *)
(* over the vocabulary, and on the parenthetical container lines.          *)
(***************************************************************************)
MaxTokens == 5

N1 == Tok("num", "1", 1, 1, "")
N2 == Tok("num", "2", 2, 1, "")
Minus2 == Tok("num", "-2", -2, 1, "")
F12 == Tok("frac", "1/2", 1, 2, "")
Open15 == Tok("open", "(15", 15, 1, "")
CloseOz == Tok("close", "oz", 0, 1, "")

Vocab ==
    {N2, F12, Word("to"), Word("cups"), Word("tbsp"), Word("flour"), WordC("flour"),
     Word("Eggs")}

SeqsUpTo(S, n) == UNION {[1..k -> S] : k \in 0..n}

CanFoods ==
    {<<Word("black"), Word("beans")>>, <<Word("Black"), WordC("beans"), Word("drained")>>,
     <<WordC(""), Word("drained")>>, <<Word("beans"), Word("Optional")>>}

CanLines ==
    {count \o <<Open15, CloseOz, c>> \o food :
        count \in {<<N1>>, <<N2>>, <<N1, F12>>}, c \in {Word("can"), Word("Can"), Word("jars")},
        food \in CanFoods}

SkipLines ==
    {<<Word("salt"), Word("to"), Word("taste")>>, <<N2, Word("Eggs"), WordC("Optional")>>,
     <<N2, Word("cups"), Word("flour"), Word("Optional")>>,
     <<N2, Word("cups"), Word("flour"), Word("optionally"), Word("sifted")>>,
     <<N1, Word("tbsp"), Word("oil"), Word("as"), Word("needed")>>}

OtherLines ==
    {<<N2, Word("cups"), Word("bread"), Word("flour")>>, <<N1, Word("cups"), Word("boiled"), Word("Eggs")>>,
     <<N1, Word("to"), N2, Word("fl"), Word("oz"), Word("milk")>>,
     <<N1, Tok("dash", "-", 0, 1, ""), N2, Word("Cups"), Word("olive"), Word("oil")>>,
     <<Tok("range", "1-2", 1, 2, ""), Word("cups"), Word("sugar")>>,
     <<Minus2, Word("cups"), WordC("flour"), Word("sifted")>>,
     <<Minus2, Word("to"), N2, Word("cups"), Word("milk")>>,
     <<Minus2, F12, Word("cups"), Word("milk")>>,
     <<Minus2, Open15, CloseOz, Word("can"), Word("beans")>>}

Lines == SeqsUpTo(Vocab, MaxTokens) \cup CanLines \cup SkipLines \cup OtherLines

ParseInit ==
    /\ AppIdle
    /\ pLine \in Lines
    /\ pOut = Null
    /\ pc = "idle" /\ req = Null /\ page = Null /\ recipe = Null /\ extracted = Null
    /\ pending = Null /\ resp = Null /\ log = <<>>
    /\ aPc = "idle" /\ aIngs = <<>> /\ aServ = Null /\ aParsed = <<>> /\ aLookups = <<>> /\ aOrder = <<>>
    /\ aOut = Null

\* one call parseIngredient(pLine)
Parse ==
    /\ pOut = Null
    /\ pOut' = Some(parseIngredient(pLine))
    /\ UNCHANGED <<pLine, handlerVars, aggVars, appVars>>

ParseNext == Parse

ParseSpec == ParseInit /\ [][ParseNext]_vars

\* the tokens of a line as the claims name them
IsNum(t) == t.k = "num"
IsUnitWord(t) == t.k = "word" /\ Lower(t.t) \in UnitKeys
IsVolumeWord(t) == t.k = "word" /\ t.p = "" /\ Lower(t.t) \in VOLUME_UNITS
PlainFood(ts) ==
    /\ ts # <<>>
    /\ \A i \in 1..Len(ts) : ts[i].k = "word" /\ ts[i].p = "" /\ ts[i].t # ""
    /\ ~SkipWords(ts)

\* C7: a line '<number> <volume unit> <food>' whose food holds a key of the
\* density table parses to foodName = <food> and gramWeight = number x
\* (unit factor / 240) x the key's grams per cup ("2 cups flour": flour, 250 g).
C7_DensityWeight ==
    (/\ pOut # Null
     /\ Len(pLine) >= 3
     /\ IsNum(pLine[1]) /\ IsVolumeWord(pLine[2])
     /\ PlainFood(SubSeq(pLine, 3, Len(pLine)))
     /\ ~IsUnitWord(pLine[3])
     /\ DensityFrom(FoodWords(SubSeq(pLine, 3, Len(pLine)), TRUE), 1) # Null)
    => LET food == FoodWords(SubSeq(pLine, 3, Len(pLine)), TRUE)
           number == Rat(pLine[1].n, pLine[1].d)
           factor == UNIT_G(Lower(pLine[2].t))
           perCup == RInt(DensityFrom(food, 1)[1])
       IN  /\ pOut[1] # Null
           /\ pOut[1][1].foodName = food
           /\ pOut[1][1].gramWeight = RMul(RMul(number, RDiv(factor, RInt(240))), perCup)

\* C8: a line '<number> <food>' whose token after the number is no known unit
\* parses to a non-null result, foodName = <food>, gramWeight = number x the
\* 'piece' factor ("2 eggs").
C8_PieceCount ==
    (/\ pOut # Null
     /\ Len(pLine) >= 2
     /\ IsNum(pLine[1])
     /\ PlainFood(SubSeq(pLine, 2, Len(pLine)))
     /\ ~IsUnitWord(pLine[2]))
    => /\ pOut[1] # Null
       /\ pOut[1][1].foodName = FoodWords(SubSeq(pLine, 2, Len(pLine)), TRUE)
       /\ pOut[1][1].gramWeight = RMul(Rat(pLine[1].n, pLine[1].d), UNIT_G("piece"))

(***************************************************************************)
(* Nutrition coercion.  A JSON value read from the page is                 *)
(* [chars |-> the characters of String(val), isNum |-> it is a number].    *)
(***************************************************************************)
JStr(chars) == [chars |-> chars, isNum |-> FALSE]
JNum(chars) == [chars |-> chars, isNum |-> TRUE]

Digits == {"0", "1", "2", "3", "4", "5", "6", "7", "8", "9"}
DigitVal(c) ==
    CASE c = "0" -> 0 [] c = "1" -> 1 [] c = "2" -> 2 [] c = "3" -> 3 [] c = "4" -> 4
      [] c = "5" -> 5 [] c = "6" -> 6 [] c = "7" -> 7 [] c = "8" -> 8 [] c = "9" -> 9

IsDigit(c) == c \in Digits
IsDigitOrDot(c) == c \in Digits \cup {"."}

RECURSIVE DigitsToInt(_, _)
\* the decimal value of a run of digits, acc the value read so far
DigitsToInt(cs, acc) ==
    IF cs = <<>> THEN acc ELSE DigitsToInt(Tail(cs), 10 * acc + DigitVal(cs[1]))

RECURSIVE DigitPrefix(_)
DigitPrefix(cs) ==
    IF cs = <<>> \/ ~IsDigit(cs[1]) THEN <<>> ELSE <<cs[1]>> \o DigitPrefix(Tail(cs))

RECURSIVE Pow10(_)
Pow10(n) == IF n = 0 THEN 1 ELSE 10 * Pow10(n - 1)

\* parseInt(String(val).replace(/[^0-9]/g, ''), 10), undefined when NaN
parseNutritionInt(val) ==
    IF val = Null THEN Null
    ELSE LET kept == SelectSeq(val[1].chars, IsDigit)
         IN  IF kept = <<>> THEN Null ELSE Some(RInt(DigitsToInt(kept, 0)))

\* parseFloat(String(val).replace(/[^0-9.]/g, '')), undefined when NaN
parseNutritionFloat(val) ==
    IF val = Null THEN Null
    ELSE LET kept == SelectSeq(val[1].chars, IsDigitOrDot)
             ip == DigitPrefix(kept)
             rest == SubSeq(kept, Len(ip) + 1, Len(kept))
             fp == IF rest # <<>> /\ rest[1] = "." THEN DigitPrefix(Tail(rest)) ELSE <<>>
         IN  IF ip = <<>> /\ fp = <<>> THEN Null
             ELSE Some(RAdd(RInt(DigitsToInt(ip, 0)), Rat(DigitsToInt(fp, 0), Pow10(Len(fp)))))

\* JS truthiness of an optional JSON value: a non-empty string, a non-zero number
Truthy(val) ==
    /\ val # Null
    /\ IF val[1].isNum THEN DigitsToInt(SelectSeq(val[1].chars, IsDigit), 0) # 0
       ELSE val[1].chars # <<>>

NutritionKeys ==
    {"calories", "protein_g", "carbs_g", "fat_g", "fiber_g", "sugar_g", "sodium_mg",
     "saturated_fat_g"}

NoNutrition == [k \in NutritionKeys |-> Null]

\* nutrition: the node's NutritionInformation object
extractFromSchemaOrg(nutrition) ==
    [calories |-> parseNutritionInt(nutrition.calories),
     protein_g |-> parseNutritionInt(nutrition.proteinContent),
     carbs_g |-> parseNutritionInt(nutrition.carbohydrateContent),
     fat_g |-> parseNutritionInt(nutrition.fatContent),
     fiber_g |-> parseNutritionFloat(nutrition.fiberContent),
     sugar_g |-> parseNutritionFloat(nutrition.sugarContent),
     sodium_mg |-> parseNutritionInt(nutrition.sodiumContent),
     saturated_fat_g |-> parseNutritionFloat(nutrition.saturatedFatContent)]

(***************************************************************************)
(* Servings.  A servings string is a sequence of pieces: a run of digits   *)
(* [d |-> value], a separator [sep] (white space around one dash) or       *)
(* any other text [txt].                                                   *)
(***************************************************************************)
SD(n) == [k |-> "digits", v |-> n]
SSep == [k |-> "sep", v |-> 0]
STxt == [k |-> "txt", v |-> 0]

parseServingsCount(servingsStr) ==
    IF servingsStr = Null \/ servingsStr = Some(<<>>) THEN RInt(1)
    ELSE LET s == servingsStr[1]
             R == {i \in 1..(Len(s) - 2) :
                     s[i].k = "digits" /\ s[i + 1].k = "sep" /\ s[i + 2].k = "digits"}
             N == {i \in 1..Len(s) : s[i].k = "digits"}
             first(S) == CHOOSE i \in S : \A j \in S : i <= j
         IN  IF R # {} THEN RDiv(RInt(s[first(R)].v + s[first(R) + 2].v), RInt(2))
             ELSE IF N # {} THEN RInt(s[first(N)].v)
             ELSE RInt(1)

(***************************************************************************)
(* JS arithmetic on the values that may be non-finite: <<1, 0>> is         *)
(* Infinity and <<0, 0>> is NaN.                                           *)
(***************************************************************************)
Infinity == <<1, 0>>
NaN == <<0, 0>>
IsFinite(x) == x[2] # 0

JsDiv(a, b) ==
    IF ~IsFinite(a) THEN a
    ELSE IF b[1] = 0 THEN (IF a[1] = 0 THEN NaN ELSE Infinity)
    ELSE RDiv(a, b)

\* floor of a finite rational
Floor(x) == x[1] \div x[2]

\* Math.round(v): the nearest integer, halves up
MathRound(v) == IF ~IsFinite(v) THEN v ELSE RInt(Floor(RAdd(v, Rat(1, 2))))

roundI(v) == IF v = Null THEN Null ELSE Some(MathRound(v[1]))
round1(v) ==
    IF v = Null THEN Null
    ELSE IF ~IsFinite(v[1]) THEN v
    ELSE Some(RDiv(MathRound(RMul(v[1], RInt(10))), RInt(10)))

(***************************************************************************)
(* calcFromIngredients and fetchUSDANutrients                              *)
(***************************************************************************)
\* One USDA answer: a network error, a non-success status, an empty result
\* set, or a first food whose foodNutrients give per-100g values for some of
\* the nutrient ids (the rest Null)
Per100(cal, pro, carb, fib, sod) ==
    [k \in NutritionKeys |->
        CASE k = "calories" -> cal [] k = "protein_g" -> pro [] k = "carbs_g" -> carb
          [] k = "fiber_g" -> fib [] k = "sodium_mg" -> sod [] OTHER -> Null]

FlourPer100 == Per100(Some(RInt(364)), Some(Rat(103, 10)), Some(RInt(76)), Some(Rat(27, 10)), Null)
PartialPer100 == Per100(Some(RInt(52)), Null, Null, Null, Some(RInt(1)))

LookupOutcomes ==
    {[kind |-> "throw", food |-> NoNutrition], [kind |-> "notok", food |-> NoNutrition],
     [kind |-> "nofoods", food |-> NoNutrition], [kind |-> "foods", food |-> NoNutrition],
     [kind |-> "foods", food |-> FlourPer100], [kind |-> "foods", food |-> PartialPer100]}

\* what the promise of fetchUSDANutrients resolves to on an answer
fetchUSDANutrients(o) ==
    IF o.kind # "foods" THEN Null
    ELSE IF \A k \in NutritionKeys : o.food[k] = Null THEN Null
    ELSE Some(o.food)

RECURSIVE ParsedOf(_)
\* ingredients.map(parseIngredient).filter(Boolean)
ParsedOf(ingredients) ==
    IF ingredients = <<>> THEN <<>>
    ELSE LET p == parseIngredient(ingredients[1])
         IN  (IF p = Null THEN <<>> ELSE <<p[1]>>) \o ParsedOf(Tail(ingredients))

\* the array Promise.all resolves to: result i is that of promise i
lookupResultsByCompletion(lookups, order) == [j \in 1..Len(lookups) |-> lookups[order[j]].val]
lookupResults(lookups, order) == [i \in 1..Len(lookups) |-> lookups[i].val]

RECURSIVE SumKey(_, _, _, _)
\* sums[key] after the accumulation loop, from index i on
SumKey(parsed, results, key, i) ==
    IF i > Len(parsed) THEN RInt(0)
    ELSE IF results[i] = Null \/ results[i][1][key] = Null THEN SumKey(parsed, results, key, i + 1)
    ELSE RAdd(RMul(results[i][1][key][1], RDiv(parsed[i].gramWeight, RInt(100))),
              SumKey(parsed, results, key, i + 1))

\* counts[key] after the accumulation loop
CountKey(results, key) ==
    Cardinality({i \in 1..Len(results) : results[i] # Null /\ results[i][1][key] # Null})

perServingOrZero(parsed, results, servings, key) ==
    Some(JsDiv(SumKey(parsed, results, key, 1), servings))
\* perServing(key): undefined unless some ingredient contributed the nutrient
perServing(parsed, results, servings, key) ==
    IF CountKey(results, key) = 0 THEN Null
    ELSE Some(JsDiv(SumKey(parsed, results, key, 1), servings))

\* the NutritionResult of calcFromIngredients once the lookups have settled
AggResult(parsed, servings, results) ==
    [calories |-> roundI(perServing(parsed, results, servings, "calories")),
     protein_g |-> roundI(perServing(parsed, results, servings, "protein_g")),
     carbs_g |-> roundI(perServing(parsed, results, servings, "carbs_g")),
     fat_g |-> roundI(perServing(parsed, results, servings, "fat_g")),
     fiber_g |-> round1(perServing(parsed, results, servings, "fiber_g")),
     sugar_g |-> round1(perServing(parsed, results, servings, "sugar_g")),
     sodium_mg |-> roundI(perServing(parsed, results, servings, "sodium_mg")),
     saturated_fat_g |-> round1(perServing(parsed, results, servings, "saturated_fat_g"))]

lookupCallsTwice(parsed) ==
    [i \in 1..(2 * Len(parsed)) |->
        [ev |-> "lookup", n |-> ((i - 1) % Len(parsed)) + 1, what |-> "", res |-> Null]]
\* parsed.map(p => fetchUSDANutrients(p.foodName, apiKey)): the calls issued
lookupCalls(parsed) ==
    [i \in 1..Len(parsed) |-> [ev |-> "lookup", n |-> i, what |-> "", res |-> Null]]

\* calcFromIngredients up to its await: one fetchUSDANutrients per parsed ingredient
AggDispatch ==
    /\ aPc = "called"
    /\ aParsed' = ParsedOf(aIngs)
    /\ aLookups' = [i \in 1..Len(aParsed') |-> [st |-> "pending", out |-> "", val |-> Null]]
    /\ aPc' = "lookups"
    /\ log' = log \o lookupCalls(aParsed')
    /\ UNCHANGED <<aIngs, aServ, aOrder, aOut, pc, req, page, recipe, extracted, pending,
                   resp, parseVars, appVars>>

\* the i-th lookup's promise settles, on any answer of the USDA service
LookupSettle(i) ==
    /\ aPc = "lookups"
    /\ i \in 1..Len(aLookups)
    /\ aLookups[i].st = "pending"
    /\ \E o \in LookupOutcomes :
          aLookups' = [aLookups EXCEPT ![i] = [st |-> "settled", out |-> o.kind,
                                               val |-> fetchUSDANutrients(o)]]
    /\ aOrder' = Append(aOrder, i)
    /\ UNCHANGED <<aPc, aIngs, aServ, aParsed, aOut, handlerVars, parseVars, appVars>>

\* Promise.all has resolved: accumulate, divide, round, return
AggFinish ==
    /\ aPc = "lookups"
    /\ \A i \in 1..Len(aLookups) : aLookups[i].st = "settled"
    /\ aOut' = Some(AggResult(aParsed, parseServingsCount(aServ), lookupResults(aLookups, aOrder)))
    /\ aPc' = "done"
    /\ UNCHANGED <<aIngs, aServ, aParsed, aLookups, aOrder, handlerVars, parseVars, appVars>>

(***************************************************************************)
(* AggSpec: calcFromIngredients on bounded ingredient lists                *)
(***************************************************************************)
MaxIngs == 2

LineFlour == <<N1, Word("to"), N2, Word("cups"), Word("flour")>>
LineSugar == <<N2, Word("to"), N2, Word("tbsp"), Word("sugar")>>
LineBeans == <<N1, Open15, CloseOz, Word("can"), Word("black"), Word("beans")>>
LineEggs == <<N2, Word("Eggs")>>
LineMinus == <<Minus2, Word("cups"), WordC("flour"), Word("sifted")>>

AggLines == {LineFlour, LineSugar, LineBeans, LineEggs, LineMinus}

ServingsDom ==
    {Null, Some(<<SD(4), STxt>>), Some(<<SD(4), SSep, SD(5)>>), Some(<<STxt, SD(0)>>)}

AggInit ==
    /\ AppIdle
    /\ aPc = "called"
    /\ aIngs \in SeqsUpTo(AggLines, MaxIngs)
    /\ aServ \in ServingsDom
    /\ aParsed = <<>> /\ aLookups = <<>> /\ aOrder = <<>> /\ aOut = Null
    /\ pc = "idle" /\ req = Null /\ page = Null /\ recipe = Null /\ extracted = Null
    /\ pending = Null /\ resp = Null /\ log = <<>>
    /\ pLine = <<>> /\ pOut = Null

AggNext ==
    \/ AggDispatch
    \/ \E i \in 1..Len(aLookups) : LookupSettle(i)
    \/ AggFinish

AggSpec == AggInit /\ [][AggNext]_vars

(***************************************************************************)
(* The page.  The handler reads the fetched HTML through regular           *)
(* expressions (the script blocks) and DOM selectors; the page is what     *)
(* each of them finds:                                                     *)
(*   scripts  the script blocks in the order the two scans visit them      *)
(*            (typed application/ld+json blocks, then untyped ones):       *)
(*            "malformed" JSON.parse throws, "other" findRecipe finds no   *)
(*            Recipe node in it, "recipe" findRecipe returns `node`        *)
(*   node     the fields of the first Recipe node                          *)
(*   micro    what the [itemprop=...] queries find, Null without a name    *)
(*   plugins  per plugin, what its class selectors find                    *)
(*   heading  the title candidates and the lists after the headings        *)
(***************************************************************************)
MaxScripts == 2

ScriptKinds == {"malformed", "other", "recipe"}
Scripts == SeqsUpTo(ScriptKinds, MaxScripts)
HasRecipe(scripts) == \E i \in 1..Len(scripts) : scripts[i] = "recipe"

Chars250kcal == <<"2", "5", "0", " ", "k", "c", "a", "l">>
Chars23p2g == <<"2", "3", ".", "2", " ", "g">>
Chars9g == <<"9", " ", "g">>
Chars3p5g == <<"3", ".", "5", " ", "g">>

LdNutr(cal, pro, fat, fib) ==
    [calories |-> cal, proteinContent |-> pro, carbohydrateContent |-> Null,
     fatContent |-> fat, fiberContent |-> fib, sugarContent |-> Null,
     sodiumContent |-> Null, saturatedFatContent |-> Null]

LdNutritions ==
    {Null,
     Some(LdNutr(Some(JStr(Chars250kcal)), Some(JStr(Chars23p2g)), Some(JNum(<<"9">>)),
                 Some(JStr(Chars3p5g)))),
     Some(LdNutr(Some(JNum(<<"0">>)), Some(JStr(<<>>)), Null, Null)),
     Some(LdNutr(Null, Some(JStr(Chars23p2g)), Some(JStr(Chars9g)), Null))}

HandlerIngs == <<LineFlour, <<>>, LineEggs>>

\* a JSON-LD property that should hold an array: absent, an array, or a bare string
LdStep(k, texts) == [k |-> k, texts |-> texts]
LdSteps ==
    <<LdStep("string", <<"Mix">>), LdStep("step", <<"Bake">>),
      LdStep("section", <<"Cool", "", "Serve">>), LdStep("string", <<"">>),
      LdStep("number", <<>>)>>

LdIngredients ==
    {[shape |-> "absent", items |-> <<>>], [shape |-> "array", items |-> HandlerIngs],
     [shape |-> "string", items |-> <<>>]}
LdInstructions ==
    {[shape |-> "absent", items |-> <<>>], [shape |-> "array", items |-> LdSteps],
     [shape |-> "string", items |-> <<>>]}

Nodes ==
    [name : {Null, Some("Soup")},
     recipeIngredient : LdIngredients,
     recipeInstructions : LdInstructions,
     nutrition : LdNutritions,
     recipeYield : ServingsDom,
     description : {Some("A soup")},
     image : {Null},
     prepTime : {Some([h |-> 1, m |-> 30])},
     cookTime : {Null}]

DefaultNode == CHOOSE n \in Nodes : n.name = Null /\ n.recipeIngredient.shape = "absent"
                  /\ n.recipeInstructions.shape = "absent" /\ n.nutrition = Null
                  /\ n.recipeYield = Null

\* ExtractionResult
ER(name, ingredients, instructions, servings, calories, fat) ==
    [name |-> name, description |-> Null, ingredients |-> ingredients,
     instructions |-> instructions, servings |-> servings, prep_time |-> Null,
     cook_time |-> Null, image_url |-> Null, calories |-> calories, protein |-> Null,
     carbs |-> Null, fat |-> fat]

\* what the microdata queries find: the name element's text, the element lists,
\* and the texts of the yield and nutrient elements
MicroValid ==
    Some([name |-> "Micro Soup", ingredients |-> HandlerIngs, instructions |-> <<"Stir", "">>,
          recipeYield |-> Some(<<SD(4), STxt>>), calories |-> Chars250kcal, fatContent |-> Chars9g])

Micros ==
    {Null, MicroValid} \cup
    {Some([name |-> n, ingredients |-> i, instructions |-> s, recipeYield |-> Some(<<SD(4), STxt>>),
           calories |-> <<>>, fatContent |-> c]) :
        n \in {"", "Micro Soup"}, i \in {<<>>, HandlerIngs}, s \in {<<>>, <<"Stir", "">>},
        c \in {Chars9g}}

PluginNames == <<"wprm", "tasty", "mediavine", "hrecipe">>

\* what a plugin's selectors find: Null without its title element
PluginFound(title, full) ==
    Some([name |-> title, ingredients |-> IF full THEN HandlerIngs ELSE <<>>,
          instructions |-> IF full THEN <<"Simmer">> ELSE <<>>, servings |-> Null])

PluginSets ==
    [wprm : {Null, PluginFound("WPRM Soup", FALSE), PluginFound("WPRM Soup", TRUE)},
     tasty : {Null, PluginFound("Tasty Soup", TRUE)},
     mediavine : {Null, PluginFound("", TRUE)},
     hrecipe : {Null, PluginFound("h Soup", TRUE)}]

NoPlugins == [wprm |-> Null, tasty |-> Null, mediavine |-> Null, hrecipe |-> Null]

\* og:title ?? h1 ?? title, and the list items found after the matching headings
Headings ==
    {[name |-> Null, ingredients |-> HandlerIngs, instructions |-> <<>>],
     [name |-> Some(""), ingredients |-> HandlerIngs, instructions |-> <<"Whisk">>],
     [name |-> Some("Heading Soup"), ingredients |-> <<>>, instructions |-> <<>>],
     [name |-> Some("Heading Soup"), ingredients |-> <<LineFlour>>, instructions |-> <<>>],
     [name |-> Some("Heading Soup"), ingredients |-> <<LineFlour, LineMinus>>, instructions |-> <<>>],
     [name |-> Some("Heading Soup"), ingredients |-> <<>>, instructions |-> <<"Whisk">>]}

NoHeading == [name |-> Null, ingredients |-> <<>>, instructions |-> <<>>]

Pages ==
    [scripts : {s \in Scripts : HasRecipe(s)}, node : Nodes, micro : {Null, MicroValid},
     plugins : {NoPlugins}, heading : {NoHeading}]
    \cup
    [scripts : {s \in Scripts : ~HasRecipe(s)}, node : {DefaultNode}, micro : Micros,
     plugins : PluginSets, heading : Headings]

(***************************************************************************)
(* The extraction strategies                                               *)
(***************************************************************************)
NonEmptyLine(l) == l # <<>>
NonEmptyText(t) == t # ""
OrUndefined(chars) == IF chars = <<>> THEN Null ELSE Some(JStr(chars))

isValidBoth(r) == r # Null /\ r[1].name # "" /\ r[1].ingredients # <<>> /\ r[1].instructions # <<>>
isValid(r) ==
    /\ r # Null
    /\ r[1].name # "" /\ (r[1].ingredients # <<>> \/ r[1].instructions # <<>>)

\* Strategy 2
extractMicrodata(document) ==
    IF document.micro = Null THEN Null
    ELSE LET m == document.micro[1]
         IN  Some(ER(m.name, SelectSeq(m.ingredients, NonEmptyLine),
                     SelectSeq(m.instructions, NonEmptyText), m.recipeYield,
                     OrUndefined(m.calories), OrUndefined(m.fatContent)))

\* extractWPRM, extractTasty, extractMediavine, extractHrecipe
extractPlugin(document, plugin) ==
    IF document.plugins[plugin] = Null THEN Null
    ELSE LET f == document.plugins[plugin][1]
         IN  Some(ER(f.name, SelectSeq(f.ingredients, NonEmptyLine),
                     SelectSeq(f.instructions, NonEmptyText), f.servings, Null, Null))

RECURSIVE PluginsFrom(_, _)
PluginsFrom(document, i) ==
    IF i > Len(PluginNames) THEN Null
    ELSE IF isValid(extractPlugin(document, PluginNames[i]))
    THEN extractPlugin(document, PluginNames[i])
    ELSE PluginsFrom(document, i + 1)

\* Strategy 3
extractPlugins(document) == PluginsFrom(document, 1)

\* Strategy 4
extractHeadingHeuristic(document) ==
    LET h == document.heading
        ingredients == SelectSeq(h.ingredients, NonEmptyLine)
        instructions == SelectSeq(h.instructions, NonEmptyText)
    IN  IF h.name = Null \/ h.name = Some("") THEN Null
        ELSE IF Len(ingredients) < 2 /\ Len(instructions) < 1 THEN Null
        ELSE Some(ER(h.name[1], ingredients, instructions, Null, Null, Null))

\* Strategy 5: what the text-generation API call comes to.  "nokey": no
\* ANTHROPIC_API_KEY, no call; "throw", "notok": the call fails; "nojson": the
\* answer holds no {...}; "badjson": JSON.parse throws; "json": the parsed answer
ClaudeOutcomes ==
    {[kind |-> k, title |-> "", ingredients |-> <<>>, instructions |-> <<>>] :
        k \in {"nokey", "throw", "notok", "nojson", "badjson", "json"}}
    \cup
    {[kind |-> "json", title |-> "AI Soup", ingredients |-> i, instructions |-> s] :
        i \in {<<>>, HandlerIngs}, s \in {<<>>, <<"Blend">>}}

extractWithClaude(o) ==
    IF o.kind # "json" THEN Null
    ELSE Some(ER(o.title, o.ingredients, o.instructions, Null, Null, Null))

(***************************************************************************)
(* Strategy 1: the response built from the JSON-LD Recipe node             *)
(***************************************************************************)
RECURSIVE JoinSp(_)
\* texts.join(' ')
JoinSp(texts) ==
    IF texts = <<>> THEN ""
    ELSE IF Len(texts) = 1 THEN texts[1]
    ELSE texts[1] \o " " \o JoinSp(Tail(texts))

\* the callback of rawSteps.map
StepText(step) ==
    CASE step.k = "string" -> step.texts[1]
      [] step.k = "step" -> step.texts[1]
      [] step.k = "section" -> JoinSp(SelectSeq(step.texts, NonEmptyText))
      [] OTHER -> ""

RECURSIVE MapSteps(_)
MapSteps(steps) == IF steps = <<>> THEN <<>> ELSE <<StepText(steps[1])>> \o MapSteps(Tail(steps))

LdInstructionsOf(node) == SelectSeq(MapSteps(node.recipeInstructions.items), NonEmptyText)
LdIngredientsOf(node) == SelectSeq(node.recipeIngredient.items, NonEmptyLine)

\* the TypeError message when building the response from the node throws, Null when it does not
LdThrows(node) ==
    IF node.recipeInstructions.shape = "string" THEN Some("rawSteps.map is not a function")
    ELSE IF node.recipeIngredient.shape = "string"
    THEN Some("recipe.recipeIngredient.map is not a function")
    ELSE Null

hasNutritionCaloriesOnly(nutrition) == nutrition # Null /\ Truthy(nutrition[1].calories)
\* nutrition && (nutrition.calories || nutrition.proteinContent || nutrition.carbohydrateContent)
hasNutritionLd(nutrition) ==
    /\ nutrition # Null
    /\ \/ Truthy(nutrition[1].calories)
       \/ Truthy(nutrition[1].proteinContent)
       \/ Truthy(nutrition[1].carbohydrateContent)

\* extracted.calories || extracted.protein || extracted.carbs
hasNutritionDom(e) == Truthy(e.calories) \/ Truthy(e.protein) \/ Truthy(e.carbs)

NumText(n) ==
    CASE n = 1 -> "1" [] n = 30 -> "30" [] n = 404 -> "404" [] n = 503 -> "503"

\* parseDuration on an ISO-8601 duration of h hours and m minutes
parseDuration(iso) ==
    IF iso.h # 0 /\ iso.m # 0 THEN NumText(iso.h) \o "h " \o NumText(iso.m) \o "m"
    ELSE IF iso.h # 0 THEN NumText(iso.h) \o "h"
    ELSE IF iso.m # 0 THEN NumText(iso.m) \o "m"
    ELSE "PT"

titleOrUndefined(name) == IF name = Null \/ name = Some("") THEN Null ELSE name
\* name || 'Untitled Recipe'
titleOr(name) == IF name = Null \/ name = Some("") THEN Some("Untitled Recipe") ELSE name

RecipeFields ==
    {"title", "description", "image_url", "source_url", "servings", "prep_time", "cook_time",
     "ingredients", "instructions"}

\* the object literal passed to ok() on the JSON-LD path, before the nutrition spread
LdRecord(node, url) ==
    [title |-> titleOr(node.name),
     description |-> node.description,
     image_url |-> node.image,
     source_url |-> Some(url),
     servings |-> node.recipeYield,
     prep_time |-> IF node.prepTime = Null THEN Null ELSE Some(parseDuration(node.prepTime[1])),
     cook_time |-> IF node.cookTime = Null THEN Null ELSE Some(parseDuration(node.cookTime[1])),
     ingredients |-> Some(LdIngredientsOf(node)),
     instructions |-> Some(LdInstructionsOf(node))]

\* the object literal passed to ok() on the DOM path, before the nutrition spread
DomRecord(e, url) ==
    [title |-> titleOr(Some(e.name)),
     description |-> e.description,
     image_url |-> e.image_url,
     source_url |-> Some(url),
     servings |-> e.servings,
     prep_time |-> e.prep_time,
     cook_time |-> e.cook_time,
     ingredients |-> Some(e.ingredients),
     instructions |-> Some(e.instructions)]

DomNutrition(e) ==
    [NoNutrition EXCEPT !.calories = parseNutritionInt(e.calories),
                        !.protein_g = parseNutritionInt(e.protein),
                        !.carbs_g = parseNutritionInt(e.carbs),
                        !.fat_g = parseNutritionInt(e.fat)]

JsonNull == <<"null">>

\* JSON.stringify of {...record, ...nutritionResult}: undefined members are
\* left out, a non-finite number is written as null
Stringify(record, nutritionResult) ==
    LET present == {f \in RecipeFields : record[f] # Null}
                   \cup {k \in NutritionKeys : nutritionResult[k] # Null}
    IN  [f \in present |->
            IF f \in NutritionKeys
            THEN (IF IsFinite(nutritionResult[f][1]) THEN nutritionResult[f][1] ELSE JsonNull)
            ELSE record[f][1]]

ok(record, nutritionResult) == Some([status |-> 200, body |-> Stringify(record, nutritionResult)])
errStatus500(msg) == Some([status |-> 500, body |-> [error |-> msg]])
\* new Response(JSON.stringify({ error: msg }), { headers }): no status given, so 200
err(msg) == Some([status |-> 200, body |-> [error |-> msg]])

Event(ev, n, what, res) == [ev |-> ev, n |-> n, what |-> what, res |-> res]

(***************************************************************************)
(* Spec: the serve handler, one request                                    *)
(***************************************************************************)
Requests ==
    {[method |-> "OPTIONS", body |-> "none", url |-> Null],
     [method |-> "POST", body |-> "malformed", url |-> Null],
     [method |-> "POST", body |-> "json", url |-> Null],
     [method |-> "POST", body |-> "json", url |-> Some("")],
     [method |-> "POST", body |-> "json", url |-> Some("https://example.com/soup")]}

Init ==
    /\ AppIdle
    /\ pc = "start"
    /\ req \in Requests
    /\ page = Null /\ recipe = Null /\ extracted = Null /\ pending = Null
    /\ resp = Null /\ log = <<>>
    /\ aPc = "idle" /\ aIngs = <<>> /\ aServ = Null /\ aParsed = <<>> /\ aLookups = <<>> /\ aOrder = <<>>
    /\ aOut = Null
    /\ pLine = <<>> /\ pOut = Null

Finish(r) == resp' = r /\ pc' = "done"

\* if (req.method === 'OPTIONS') return new Response(null, ...)
Preflight ==
    /\ pc = "start" /\ req.method = "OPTIONS"
    /\ Finish(Some([status |-> 200, body |-> <<>>]))
    /\ UNCHANGED <<req, page, recipe, extracted, pending, log, aggVars, parseVars, appVars>>

\* await req.json() throws: the catch-all answers with the exception's message
BodyParseFails ==
    /\ pc = "start" /\ req.method = "POST" /\ req.body = "malformed"
    /\ Finish(err("Unexpected end of JSON input"))
    /\ UNCHANGED <<req, page, recipe, extracted, pending, log, aggVars, parseVars, appVars>>

urlAbsentOnly(url) == url = Null
\* !url, for a url that is absent or a string
notUrl(url) == url = Null \/ url = Some("")

\* if (!url) return err('URL is required')
UrlMissing ==
    /\ pc = "start" /\ req.method = "POST" /\ req.body = "json"
    /\ notUrl(req.url)
    /\ Finish(err("URL is required"))
    /\ UNCHANGED <<req, page, recipe, extracted, pending, log, aggVars, parseVars, appVars>>

\* res = await fetch(url, ...) is issued
StartFetch ==
    /\ pc = "start" /\ req.method = "POST" /\ req.body = "json"
    /\ ~notUrl(req.url)
    /\ pc' = "fetch"
    /\ log' = Append(log, Event("fetch", 0, "", Null))
    /\ UNCHANGED <<req, page, recipe, extracted, pending, resp, aggVars, parseVars, appVars>>

FetchErrors ==
    {[name |-> "AbortError", message |-> "The signal has been aborted"],
     [name |-> "TypeError", message |-> "error sending request"]}

fetchErrorMessageSame(e) == "Could not reach the page: " \o e.message
\* the message of the inner catch
fetchErrorMessage(e) ==
    IF e.name = "AbortError" THEN "The recipe page took too long to respond."
    ELSE "Could not reach the page: " \o e.message

\* fetch rejects: the 15 s abort, or a network failure
FetchFails ==
    /\ pc = "fetch"
    /\ \E e \in FetchErrors :
          /\ Finish(err(fetchErrorMessage(e)))
          /\ log' = Append(log, Event("fetched", 0, e.name, Some(e.message)))
    /\ UNCHANGED <<req, page, recipe, extracted, pending, aggVars, parseVars, appVars>>

\* if (!res.ok) return err(`Failed to fetch page (HTTP ${res.status})`)
FetchNotOk ==
    /\ pc = "fetch"
    /\ \E status \in {404, 503} :
          /\ Finish(err("Failed to fetch page (HTTP " \o NumText(status) \o ")"))
          /\ log' = Append(log, Event("fetched", status, "status", Null))
    /\ UNCHANGED <<req, page, recipe, extracted, pending, aggVars, parseVars, appVars>>

\* await res.text() rejects: the catch-all answers
FetchBodyFails ==
    /\ pc = "fetch"
    /\ Finish(err("error decoding response body"))
    /\ log' = Append(log, Event("fetched", 200, "body", Null))
    /\ UNCHANGED <<req, page, recipe, extracted, pending, aggVars, parseVars, appVars>>

\* html = await res.text()
FetchOk ==
    /\ pc = "fetch"
    /\ \E p \in Pages : page' = p
    /\ pc' = "s1"
    /\ log' = Append(log, Event("fetched", 200, "ok", Null))
    /\ UNCHANGED <<req, recipe, extracted, pending, resp, aggVars, parseVars, appVars>>

\* the extraction the JSON-LD node amounts to
LdExtraction(node) ==
    Some(ER(IF node.name = Null THEN "" ELSE node.name[1], LdIngredientsOf(node),
            LdInstructionsOf(node), node.recipeYield, Null, Null))

\* calcFromIngredients(ingredients, servings, usdaApiKey) is called
CallAggregator(ingredients, servings) ==
    /\ aPc' = "called"
    /\ aIngs' = ingredients
    /\ aServ' = servings
    /\ UNCHANGED <<aParsed, aLookups, aOrder, aOut>>

\* Strategy 1, both scans end without a Recipe node (malformed blocks skipped)
S1NoRecipe ==
    /\ pc = "s1"
    /\ ~HasRecipe(page.scripts)
    /\ recipe' = Null
    /\ pc' = "s2"
    /\ log' = Append(log, Event("try", 1, "", Null))
    /\ UNCHANGED <<req, page, extracted, pending, resp, aggVars, parseVars, appVars>>

\* Strategy 1 found a node and building the response from it throws
S1Throws ==
    /\ pc = "s1"
    /\ HasRecipe(page.scripts)
    /\ LdThrows(page.node) # Null
    /\ recipe' = Some(page.node)
    /\ Finish(err(LdThrows(page.node)[1]))
    /\ log' = Append(log, Event("try", 1, "threw", Null))
    /\ UNCHANGED <<req, page, extracted, pending, aggVars, parseVars, appVars>>

\* Strategy 1 found a node that carries nutrition
S1Embedded ==
    /\ pc = "s1"
    /\ HasRecipe(page.scripts)
    /\ LdThrows(page.node) = Null
    /\ hasNutritionLd(page.node.nutrition)
    /\ recipe' = Some(page.node)
    /\ Finish(ok(LdRecord(page.node, req.url[1]), extractFromSchemaOrg(page.node.nutrition[1])))
    /\ log' = Append(log, Event("try", 1, "", LdExtraction(page.node)))
    /\ UNCHANGED <<req, page, extracted, pending, aggVars, parseVars, appVars>>

\* Strategy 1 found a node without nutrition: await calcFromIngredients
S1Aggregate ==
    /\ pc = "s1"
    /\ HasRecipe(page.scripts)
    /\ LdThrows(page.node) = Null
    /\ ~hasNutritionLd(page.node.nutrition)
    /\ recipe' = Some(page.node)
    /\ pending' = Some(LdRecord(page.node, req.url[1]))
    /\ CallAggregator(LdIngredientsOf(page.node), page.node.recipeYield)
    /\ pc' = "agg"
    /\ log' = log \o <<Event("try", 1, "", LdExtraction(page.node)), Event("agg", 0, "", Null)>>
    /\ UNCHANGED <<req, page, extracted, resp, parseVars, appVars>>

\* where the handler goes after a DOM strategy left `extracted`
AfterExtract(e, next) == IF isValid(e) THEN "nutrition" ELSE next

\* Strategy 2: extracted = extractMicrodata(document)
Strategy2 ==
    /\ pc = "s2"
    /\ extracted' = extractMicrodata(page)
    /\ pc' = AfterExtract(extracted', "s3")
    /\ log' = Append(log, Event("try", 2, "", extracted'))
    /\ UNCHANGED <<req, page, recipe, pending, resp, aggVars, parseVars, appVars>>

\* Strategy 3: if (!isValid(extracted)) extracted = extractPlugins(document)
Strategy3 ==
    /\ pc = "s3"
    /\ extracted' = extractPlugins(page)
    /\ pc' = AfterExtract(extracted', "s4")
    /\ log' = Append(log, Event("try", 3, "", extracted'))
    /\ UNCHANGED <<req, page, recipe, pending, resp, aggVars, parseVars, appVars>>

\* Strategy 4: if (!isValid(extracted)) extracted = extractHeadingHeuristic(document)
Strategy4 ==
    /\ pc = "s4"
    /\ extracted' = extractHeadingHeuristic(page)
    /\ pc' = AfterExtract(extracted', "s5")
    /\ log' = Append(log, Event("try", 4, "", extracted'))
    /\ UNCHANGED <<req, page, recipe, pending, resp, aggVars, parseVars, appVars>>

NoRecipeMessage ==
    "No recipe found on this page. Try a direct recipe URL from a food blog or major recipe site."

\* Strategy 5: if (!isValid(extracted)) extracted = await extractWithClaude(html),
\* then the no-match answer if that is not valid either
Strategy5 ==
    /\ pc = "s5"
    /\ \E o \in ClaudeOutcomes :
          /\ extracted' = extractWithClaude(o)
          /\ log' = log \o (IF o.kind = "nokey" THEN <<>> ELSE <<Event("ai", 0, o.kind, Null)>>)
                        \o <<Event("try", 5, "", extracted')>>
          /\ IF isValid(extracted')
             THEN pc' = "nutrition" /\ resp' = resp
             ELSE Finish(err(NoRecipeMessage))
    /\ UNCHANGED <<req, page, recipe, pending, aggVars, parseVars, appVars>>

\* the DOM path's result carries nutrition
NutritionEmbedded ==
    /\ pc = "nutrition"
    /\ hasNutritionDom(extracted[1])
    /\ Finish(ok(DomRecord(extracted[1], req.url[1]), DomNutrition(extracted[1])))
    /\ UNCHANGED <<req, page, recipe, extracted, pending, log, aggVars, parseVars, appVars>>

\* the DOM path's result carries none: await calcFromIngredients
NutritionAggregate ==
    /\ pc = "nutrition"
    /\ ~hasNutritionDom(extracted[1])
    /\ pending' = Some(DomRecord(extracted[1], req.url[1]))
    /\ CallAggregator(extracted[1].ingredients, extracted[1].servings)
    /\ pc' = "agg"
    /\ log' = Append(log, Event("agg", 0, "", Null))
    /\ UNCHANGED <<req, page, recipe, extracted, resp, parseVars, appVars>>

\* calcFromIngredients has returned: return ok({..., ...nutritionResult})
AggRespond ==
    /\ pc = "agg" /\ aPc = "done"
    /\ Finish(ok(pending[1], aOut[1]))
    /\ UNCHANGED <<req, page, recipe, extracted, pending, log, aggVars, parseVars, appVars>>

Next ==
    \/ Preflight \/ BodyParseFails \/ UrlMissing \/ StartFetch
    \/ FetchFails \/ FetchNotOk \/ FetchBodyFails \/ FetchOk
    \/ S1NoRecipe \/ S1Throws \/ S1Embedded \/ S1Aggregate
    \/ Strategy2 \/ Strategy3 \/ Strategy4 \/ Strategy5
    \/ NutritionEmbedded \/ NutritionAggregate
    \/ AggDispatch \/ (\E i \in 1..Len(aLookups) : LookupSettle(i)) \/ AggFinish
    \/ AggRespond

Spec == Init /\ [][Next]_vars

(***************************************************************************)
(* Properties of calcFromIngredients (AggSpec)                             *)
(***************************************************************************)
\* the lookups that returned a value for key
C9_Have(key) == {i \in 1..Len(aLookups) : aLookups[i].val # Null /\ aLookups[i].val[1][key] # Null}

RECURSIVE C9_Total(_, _)
\* the sum, over the ingredients in S, of the per-100g value of the
\* ingredient's own lookup scaled by the ingredient's own gram weight
C9_Total(S, key) ==
    IF S = {} THEN RInt(0)
    ELSE LET i == CHOOSE j \in S : \A k \in S : k <= j
         IN  RAdd(C9_Total(S \ {i}, key),
                  RDiv(RMul(aLookups[i].val[1][key][1], aParsed[i].gramWeight), RInt(100)))

C9_Rounded(key, v) ==
    IF key \in {"fiber_g", "sugar_g", "saturated_fat_g"} THEN round1(Some(v)) ELSE roundI(Some(v))

\* C9: whatever the order in which the concurrent lookups settle and whichever
\* of them fail, a failed lookup (network error, non-success status, empty
\* result) resolves to null, the aggregation still returns, and each total is
\* the sum over exactly the ingredients whose own lookup returned a value, each
\* scaled by its own gram weight (pairing by position).
C9_PositionalSum ==
    /\ \A i \in 1..Len(aLookups) :
          aLookups[i].st = "settled" /\ aLookups[i].out \in {"throw", "notok", "nofoods"}
              => aLookups[i].val = Null
    /\ aPc = "done" =>
          /\ aOut # Null
          /\ \A key \in NutritionKeys :
                IF C9_Have(key) = {} THEN aOut[1][key] = Null
                ELSE aOut[1][key] =
                        C9_Rounded(key, JsDiv(C9_Total(C9_Have(key), key), parseServingsCount(aServ)))

\* two lookups, the second settled first, the first failed, the second's values summed
C9_Witness ==
    /\ aPc = "done"
    /\ Len(aParsed) = 2
    /\ aParsed[1].gramWeight # aParsed[2].gramWeight
    /\ aOrder = <<2, 1>>
    /\ aLookups[1].out = "throw"
    /\ aLookups[2].val # Null
    /\ aOut[1].calories # Null

(***************************************************************************)
(* Properties of the serve handler (Spec)                                  *)
(***************************************************************************)
\* the validity rule: a non-empty title and an ingredient or an instruction
Usable(r) ==
    /\ r # Null
    /\ r[1].name # ""
    /\ Len(r[1].ingredients) + Len(r[1].instructions) > 0

Answered == pc = "done" /\ req # Null /\ req.method = "POST"
IsErrorBody(body) == DOMAIN body = {"error"}
Success == Answered /\ ~IsErrorBody(resp[1].body)
Tries == SelectSeq(log, LAMBDA e : e.ev = "try")
Happened(ev) == \E i \in 1..Len(log) : log[i].ev = ev

\* C1: the body of every answer to a POST is either a recipe record (title,
\* source_url, ingredients, instructions, optional other fields) without
\* `error`, or an `error` string alone.
C1_RecipeOrError ==
    Answered =>
        LET body == resp[1].body
        IN  \/ IsErrorBody(body) /\ body.error \in STRING
            \/ /\ "error" \notin DOMAIN body
               /\ {"title", "source_url", "ingredients", "instructions"} \subseteq DOMAIN body
               /\ DOMAIN body \subseteq RecipeFields \cup NutritionKeys
               /\ body.title \in STRING /\ body.title # ""

\* a success built from a Recipe node without a name
C1_Witness == Success /\ resp[1].body.title = "Untitled Recipe" /\ recipe # Null

\* C2: the strategies run in the order 1, 2, 3, 4, 5, none runs after an
\* earlier one gave a usable result, a success is built from the first usable
\* result, and a usable result always ends in a success.
C2_FirstValidWins ==
    /\ \A k \in 1..Len(Tries) : Tries[k].n = k
    /\ \A k \in 1..(Len(Tries) - 1) : ~Usable(Tries[k].res)
    /\ Success => Usable(Tries[Len(Tries)].res)
    /\ (Answered /\ Tries # <<>> /\ Usable(Tries[Len(Tries)].res)) => Success

\* C3: the text-generation API is called only after strategies 1, 2, 3 and 4
\* have each run on the page and each given no usable result.
C3_AiLast ==
    \A i \in 1..Len(log) :
        log[i].ev = "ai" =>
            /\ \A n \in 1..4 : \E j \in 1..(i - 1) : log[j].ev = "try" /\ log[j].n = n
            /\ \A j \in 1..(i - 1) : log[j].ev = "try" => ~Usable(log[j].res)

\* the API was called, after a microdata result with a title but no lists
C3_Witness ==
    /\ Happened("ai")
    /\ Success
    /\ \E j \in 1..Len(log) : log[j].ev = "try" /\ log[j].n = 2 /\ log[j].res # Null
                              /\ log[j].res[1].name # ""

\* C4: no success response carries zero ingredients and zero instructions,
\* and every success comes from a result with a non-empty title.
C4_NoEmptySuccess ==
    Success =>
        /\ Len(resp[1].body.ingredients) + Len(resp[1].body.instructions) > 0
        /\ Tries[Len(Tries)].res[1].name # ""

\* C5: a page on which microdata, a plugin or the headings give a usable
\* recipe is never answered with an error, whatever its script blocks hold.
C5_FailSoft ==
    (/\ Answered
     /\ page # Null
     /\ \/ Usable(extractMicrodata(page))
        \/ Usable(extractPlugins(page))
        \/ Usable(extractHeadingHeuristic(page)))
    => Success

\* the winning strategy supplied calories, protein or carbs
C6_Supplied ==
    IF Tries[Len(Tries)].n = 1
    THEN /\ recipe[1].nutrition # Null
         /\ \/ recipe[1].nutrition[1].calories # Null
            \/ recipe[1].nutrition[1].proteinContent # Null
            \/ recipe[1].nutrition[1].carbohydrateContent # Null
    ELSE \/ extracted[1].calories # Null
         \/ extracted[1].protein # Null
         \/ extracted[1].carbs # Null

\* the coerced embedded values of the winning strategy
C6_Coerced ==
    IF Tries[Len(Tries)].n = 1 THEN extractFromSchemaOrg(recipe[1].nutrition[1])
    ELSE DomNutrition(extracted[1])

\* C6: in a request that ends in a success the aggregator is invoked exactly
\* when the winning strategy supplied none of calories, protein, carbs, and
\* otherwise the nutrition fields of the response are the coerced embedded values.
C6_AggregatorIffNoneSupplied ==
    Success =>
        /\ Happened("agg") <=> ~C6_Supplied
        /\ ~Happened("agg") => ~Happened("lookup")
        /\ C6_Supplied =>
              \A k \in NutritionKeys :
                  IF C6_Coerced[k] = Null THEN k \notin DOMAIN resp[1].body
                  ELSE k \in DOMAIN resp[1].body /\ resp[1].body[k] = C6_Coerced[k][1]

\* C10: a failed page fetch ends the request with the error message of its
\* kind (timeout, other network failure, non-2xx status) and nothing else is
\* attempted: no strategy, no aggregation, no lookup, no API call.
C10_FetchFailure ==
    \A i \in 1..Len(log) :
        (log[i].ev = "fetched" /\ log[i].what \in {"AbortError", "TypeError", "status"}) =>
            /\ Answered
            /\ IsErrorBody(resp[1].body)
            /\ resp[1].body.error =
                  (CASE log[i].what = "AbortError" -> "The recipe page took too long to respond."
                     [] log[i].what = "TypeError" -> "Could not reach the page: " \o log[i].res[1]
                     [] log[i].what = "status" ->
                           "Failed to fetch page (HTTP " \o
                           (IF log[i].n = 404 THEN "404" ELSE "503") \o ")")
            /\ resp[1].body.error # "Could not reach the page: The signal has been aborted"
            /\ i = Len(log)
            /\ ~Happened("try") /\ ~Happened("ai") /\ ~Happened("agg") /\ ~Happened("lookup")
            /\ aPc = "idle" /\ page = Null

\* the fetch was aborted by the 15 s timer
C10_Witness ==
    /\ Answered
    /\ Len(log) = 2 /\ log[2].ev = "fetched" /\ log[2].what = "AbortError"
    /\ resp[1].body.error = "The recipe page took too long to respond."

\* the winning strategy supplied a non-empty, non-zero calories, protein or carbs
C6_SuppliedTruthy ==
    IF Tries[Len(Tries)].n = 1
    THEN /\ recipe[1].nutrition # Null
         /\ \E f \in {"calories", "proteinContent", "carbohydrateContent"} :
               LET v == recipe[1].nutrition[1][f]
               IN  /\ v # Null
                   /\ v[1].chars # <<>>
                   /\ ~(v[1].isNum /\ \A i \in 1..Len(v[1].chars) : v[1].chars[i] \in {"0", "."})
    ELSE \E f \in {"calories", "protein", "carbs"} :
            extracted[1][f] # Null /\ extracted[1][f][1].chars # <<>>

\* C6 (amended): in a request that ends in a success the aggregator is
\* invoked exactly when the winning strategy supplied no non-empty, non-zero
\* value for calories, protein or carbs; otherwise no lookup is made and the
\* nutrition fields of the response are the coerced embedded values.
C6_AggregatorIffNoneTruthy ==
    Success =>
        /\ Happened("agg") <=> ~C6_SuppliedTruthy
        /\ ~Happened("agg") => ~Happened("lookup")
        /\ C6_SuppliedTruthy =>
              \A k \in NutritionKeys :
                  IF C6_Coerced[k] = Null THEN k \notin DOMAIN resp[1].body
                  ELSE k \in DOMAIN resp[1].body /\ resp[1].body[k] = C6_Coerced[k][1]

\* a Recipe node with protein and fat but no calories answered from its own values
C6_Witness ==
    /\ Success
    /\ Tries[Len(Tries)].n = 1
    /\ recipe[1].nutrition # Null
    /\ recipe[1].nutrition[1].calories = Null
    /\ ~Happened("agg")
    /\ "fat_g" \in DOMAIN resp[1].body

\* C11: a request whose JSON body has no url, or an empty one, is answered
\* with exactly {error: "URL is required"}, and no page fetch, strategy,
\* lookup or API call is made for it.
C11_UrlRequired ==
    (req # Null /\ req.method = "POST" /\ req.body = "json"
     /\ (req.url = Null \/ req.url = Some("")))
    => /\ log = <<>>
       /\ aPc = "idle" /\ page = Null
       /\ pc \in {"start", "done"}
       /\ pc = "done" => resp = Some([status |-> 200, body |-> [error |-> "URL is required"]])

\* the request with an empty url has been answered
C11_Witness ==
    /\ Answered
    /\ req.url = Some("")
    /\ resp[1].body = [error |-> "URL is required"]

\* C12: when the page was fetched and none of the five strategies gives a
\* usable result, the answer is the error body 'No recipe found on this
\* page. ...' and neither the aggregator nor a lookup is invoked.
C12_NoMatch ==
    (/\ Answered
     /\ Happened("fetched") /\ page # Null
     /\ \A k \in 1..Len(Tries) : Tries[k].what # "threw" /\ ~Usable(Tries[k].res)
     /\ ~Usable(extractMicrodata(page))
     /\ ~Usable(extractPlugins(page))
     /\ ~Usable(extractHeadingHeuristic(page)))
    => /\ resp[1].body =
             [error |-> "No recipe found on this page. Try a direct recipe URL from a food blog or major recipe site."]
       /\ ~Happened("agg") /\ ~Happened("lookup")

\* C13: every response of the handler, success or failure, has status 200.
C13_AlwaysStatus200 ==
    /\ pc = "done" => resp # Null /\ resp[1].status = 200
    /\ resp # Null => resp[1].status = 200

\* the no-recipe failure, answered with status 200
C13_Witness ==
    /\ Answered
    /\ IsErrorBody(resp[1].body)
    /\ Happened("try")
    /\ resp[1].status = 200

\* the positions in the history of the calls of one kind
C14_Calls(ev) == {i \in 1..Len(log) : log[i].ev = ev}

\* C14: within one request the page is fetched at most once, the
\* text-generation API is called at most once, the aggregator is called at
\* most once, and each parsed ingredient is looked up at most once, whatever
\* the outcome of the calls.
C14_NoRepeatedCall ==
    /\ Cardinality(C14_Calls("fetch")) <= 1
    /\ Cardinality(C14_Calls("fetched")) <= 1
    /\ Cardinality(C14_Calls("ai")) <= 1
    /\ Cardinality(C14_Calls("agg")) <= 1
    /\ Cardinality(C14_Calls("lookup")) <= Len(aParsed)
    /\ \A i, j \in C14_Calls("lookup") : log[i].n = log[j].n => i = j
    /\ \A i, j \in 1..Len(aOrder) : aOrder[i] = aOrder[j] => i = j

\* a request answered after the page fetch, the API call and one lookup, which failed
C14_Witness ==
    /\ Answered
    /\ Cardinality(C14_Calls("fetch")) = 1
    /\ Cardinality(C14_Calls("ai")) = 1
    /\ Len(aLookups) = 1
    /\ aLookups[1].out = "throw"
    /\ Cardinality(C14_Calls("lookup")) = 1

(***************************************************************************)
(* Properties of parseIngredient (ParseSpec)                               *)
(***************************************************************************)
\* the line holds the letters of 'optional', 'to taste' or 'as needed', in any case
C15_HasLetters(ts) ==
    \/ \E i \in 1..Len(ts) : ts[i].k = "word" /\ Lower(ts[i].t) \in {"optional", "optionally"}
    \/ \E i \in 1..(Len(ts) - 1) :
          /\ ts[i].k = "word" /\ ts[i + 1].k = "word" /\ ts[i].p = ""
          /\ \/ Lower(ts[i].t) = "to" /\ Lower(ts[i + 1].t) = "taste"
             \/ Lower(ts[i].t) = "as" /\ Lower(ts[i + 1].t) = "needed"

\* the line holds 'optional', 'to taste' or 'as needed' as whole words, in any case
C15_HasWords(ts) ==
    \/ \E i \in 1..Len(ts) : ts[i].k = "word" /\ Lower(ts[i].t) = "optional"
    \/ \E i \in 1..(Len(ts) - 1) :
          /\ ts[i].k = "word" /\ ts[i + 1].k = "word" /\ ts[i].p = ""
          /\ \/ Lower(ts[i].t) = "to" /\ Lower(ts[i + 1].t) = "taste"
             \/ Lower(ts[i].t) = "as" /\ Lower(ts[i + 1].t) = "needed"

\* C15 as stated: parseIngredient returns null for every line in which 'to
\* taste', 'as needed' or 'optional' occurs anywhere, in any letter case.
C15_SkipAnywhere == (pOut # Null /\ C15_HasLetters(pLine)) => pOut[1] = Null

\* C15 (amended): parseIngredient returns null for every line that holds 'to
\* taste', 'as needed' or 'optional' as whole words, in any letter case.
C15_SkipWholeWords == (pOut # Null /\ C15_HasWords(pLine)) => pOut[1] = Null

\* "2 cups flour Optional" was parsed to null
C15_Witness ==
    /\ pOut = Some(Null)
    /\ Len(pLine) = 4
    /\ pLine[3].t = "flour" /\ pLine[4].t = "Optional"

\* the texts of the tokens up to and including the first one followed by a comma
C16_UpToComma(ts) ==
    LET C == {i \in 1..Len(ts) : ts[i].p = ","}
        last == IF C = {} THEN Len(ts) ELSE CHOOSE i \in C : \A j \in C : i <= j
    IN  SelectSeq([i \in 1..last |-> ts[i].t], LAMBDA w : w # "")

\* the line is '<count> (<size> <unit>) can|jar|bottle <food>', the count a
\* number or a mixed number, and holds none of the skip phrases
C16_IsCanLine(ts) ==
    LET c == IF Len(ts) >= 2 /\ ts[2].k = "frac" THEN 2 ELSE 1
    IN  /\ Len(ts) >= c + 4
        /\ ts[1].k = "num"
        /\ ts[c + 1].k = "open" /\ ts[c + 2].k = "close"
        /\ ts[c + 3].k = "word" /\ ts[c + 3].p = ""
        /\ Lower(ts[c + 3].t) \in {"can", "cans", "jar", "jars", "bottle", "bottles"}
        /\ \A i \in (c + 4)..Len(ts) : ts[i].k = "word"
        /\ ~C15_HasWords(ts)

C17_FoodNameNormal ==
    (pOut # Null /\ pOut[1] # Null) =>
        LET food == pOut[1][1].foodName
        IN  /\ food # <<>>
            /\ \A i \in 1..Len(food) : food[i] # "" /\ Lower(food[i]) = food[i]

\* C18: in the aggregator's result each nutrient is decided on its own: it is
\* absent (never zero) when no ingredient's lookup supplied it, and otherwise
\* it is (the sum over the supplying ingredients of per-100g value x
\* gramWeight / 100) / servings, rounded to an integer, or to a tenth for
\* fiber, sugar and saturated fat.
C18_PerNutrient ==
    aPc = "done" =>
        \A key \in NutritionKeys :
            LET supplied == {i \in 1..Len(aParsed) :
                                aLookups[i].val # Null /\ aLookups[i].val[1][key] # Null}
                exact == JsDiv(C9_Total(supplied, key), parseServingsCount(aServ))
                field == aOut[1][key]
            IN  /\ field = Null <=> supplied = {}
                /\ (field # Null /\ IsFinite(exact)) =>
                      LET scale == IF key \in {"fiber_g", "sugar_g", "saturated_fat_g"} THEN 10 ELSE 1
                          scaled == RMul(field[1], RInt(scale))
                          want == RMul(exact, RInt(scale))
                      IN  /\ scaled[2] = 1
                          /\ RLess(RAdd(want, Rat(-1, 2)), scaled)
                          /\ RLess(scaled, RAdd(want, Rat(1, 2))) \/ scaled = RAdd(want, Rat(1, 2))
                /\ (field # Null /\ ~IsFinite(exact)) => field[1] = exact

\* two lookups that both supplied calories and sodium but no protein
C18_Witness ==
    /\ aPc = "done"
    /\ Len(aLookups) = 2
    /\ aLookups[1].val # Null /\ aLookups[2].val # Null
    /\ aOut[1].calories # Null /\ aOut[1].sodium_mg # Null
    /\ aOut[1].protein_g = Null

\* the nutrition fields of the response that hold a number
C19_Numbers ==
    {k \in NutritionKeys \cap DOMAIN resp[1].body : resp[1].body[k] # JsonNull}

\* C19: every nutrition field of a success response is non-negative, on the
\* embedded path and on the aggregated path.
C19_NonNegative ==
    Success => \A k \in C19_Numbers : resp[1].body[k][1] >= 0

\* C20: in every success response calories, protein_g, carbs_g, fat_g and
\* sodium_mg, when present, are integers, on the embedded path and on the
\* aggregated path.
C20_IntegerFields ==
    Success =>
        \A k \in {"calories", "protein_g", "carbs_g", "fat_g", "sodium_mg"} \cap DOMAIN resp[1].body :
            /\ resp[1].body[k] # JsonNull
            /\ resp[1].body[k][2] = 1

(***************************************************************************)
(* Properties of the servings count and of the integer coercion            *)
(***************************************************************************)
\* C26: the servings count calcFromIngredients divides by is at least 1 for
\* every servings string, and no value it returns is the result of a
\* division by zero.
C26_ServingsAtLeastOne ==
    aPc = "done" =>
        /\ ~RLess(parseServingsCount(aServ), RInt(1))
        /\ \A k \in NutritionKeys : aOut[1][k] # Null => IsFinite(aOut[1][k][1])

\* the number an embedded value starts with, rounded down and rounded up
C27_Floor(val) == Floor(parseNutritionFloat(val)[1])
C27_Ceil(val) == -Floor(RMul(RInt(-1), parseNutritionFloat(val)[1]))

\* C27: for an embedded value written as a number followed by a unit, the
\* integer coercion used for calories, protein, carbs, fat and sodium yields
\* that number rounded to an integer, never more than the number rounded up.
C27_IntegerCoercion ==
    (Success /\ Tries[Len(Tries)].n = 1 /\ ~Happened("agg")) =>
        \A f \in {"calories", "proteinContent", "carbohydrateContent", "fatContent",
                  "sodiumContent"} :
            LET val == recipe[1].nutrition[1][f]
            IN  (val # Null /\ parseNutritionFloat(val) # Null) =>
                    /\ parseNutritionInt(val) # Null
                    /\ parseNutritionInt(val)[1][2] = 1
                    /\ parseNutritionInt(val)[1][1] >= C27_Floor(val)
                    /\ parseNutritionInt(val)[1][1] <= C27_Ceil(val)

(***************************************************************************)
(* utils/nutrition.ts: getDayNutrition.  A day plan is the sequence of its *)
(* meals in key order (Object.values), a meal's recipe_id is absent, the   *)
(* empty string or an id; a recipe's nutrition field is null or a number.  *)
(***************************************************************************)
RECURSIVE recipeMapGet(_, _)
\* new Map(recipes.map(r => [r.id, r])).get(id): the last recipe with that id
recipeMapGet(recipes, id) ==
    IF recipes = <<>> THEN Null
    ELSE IF recipes[Len(recipes)].id = id THEN Some(recipes[Len(recipes)])
    ELSE recipeMapGet(SubSeq(recipes, 1, Len(recipes) - 1), id)

\* v ?? 0
orZero(v) == IF v = Null THEN 0 ELSE v[1]

ZeroTotals == [k \in NutritionKeys |-> 0]

\* !meal.recipe_id
noRecipeId(meal) == meal.recipe_id = Null \/ meal.recipe_id = Some("")

RECURSIVE dayLoopBreak(_, _, _)
dayLoopBreak(meals, recipes, totals) ==
    IF meals = <<>> THEN totals
    ELSE IF noRecipeId(meals[1]) THEN totals
    ELSE LET found == recipeMapGet(recipes, meals[1].recipe_id[1])
         IN  IF found = Null THEN totals
             ELSE dayLoopBreak(Tail(meals), recipes,
                               [k \in NutritionKeys |-> totals[k] + orZero(found[1][k])])

RECURSIVE dayLoop(_, _, _)
\* for (const meal of Object.values(dayPlan)) { ... totals.x += recipe.x ?? 0 }
dayLoop(meals, recipes, totals) ==
    IF meals = <<>> THEN totals
    ELSE IF noRecipeId(meals[1]) THEN dayLoop(Tail(meals), recipes, totals)
    ELSE LET found == recipeMapGet(recipes, meals[1].recipe_id[1])
         IN  IF found = Null THEN dayLoop(Tail(meals), recipes, totals)
             ELSE dayLoop(Tail(meals), recipes,
                          [k \in NutritionKeys |-> totals[k] + orZero(found[1][k])])

getDayNutrition(dayPlan, recipes) == dayLoop(dayPlan, recipes, ZeroTotals)

MaxMeals == 2

MealTypes == {"breakfast", "lunch", "dinner"}
RecipeIds == {Null, Some(""), Some("r1"), Some("r2"), Some("r9")}
DayMeals == [type : MealTypes, recipe_id : RecipeIds]
DayPlans ==
    {p \in SeqsUpTo(DayMeals, MaxMeals) :
        \A i, j \in 1..Len(p) : i # j => p[i].type # p[j].type}

RecipeOne ==
    [id |-> "r1", calories |-> Some(500), protein_g |-> Some(30), carbs_g |-> Some(60),
     fat_g |-> Some(15), fiber_g |-> Some(8), sugar_g |-> Some(5), sodium_mg |-> Some(400),
     saturated_fat_g |-> Some(4)]
RecipeTwo ==
    [id |-> "r2", calories |-> Some(250), protein_g |-> Null, carbs_g |-> Some(0),
     fat_g |-> Some(7), fiber_g |-> Null, sugar_g |-> Null, sodium_mg |-> Some(90),
     saturated_fat_g |-> Null]
RecipeLists ==
    {<<>>, <<RecipeOne>>, <<RecipeTwo>>, <<RecipeOne, RecipeTwo>>, <<RecipeTwo, RecipeOne>>}

HandlerIdle ==
    /\ pc = "idle" /\ req = Null /\ page = Null /\ recipe = Null /\ extracted = Null
    /\ pending = Null /\ resp = Null /\ log = <<>>
    /\ aPc = "idle" /\ aIngs = <<>> /\ aServ = Null /\ aParsed = <<>> /\ aLookups = <<>>
    /\ aOrder = <<>> /\ aOut = Null
    /\ pLine = <<>> /\ pOut = Null
    /\ TwinIdle

edgeVars == <<handlerVars, parseVars, aggVars, twinVars>>

DayInit ==
    /\ dPlan \in DayPlans
    /\ dRecipes \in RecipeLists
    /\ dOut = Null
    /\ HandlerIdle /\ WeightIdle /\ MealIdle /\ ShopIdle

\* one call getDayNutrition(dPlan, dRecipes)
DayCall ==
    /\ dOut = Null
    /\ dOut' = Some(getDayNutrition(dPlan, dRecipes))
    /\ UNCHANGED <<dPlan, dRecipes, edgeVars, weightVars, mealVars, shopVars>>

DayNext == DayCall

DaySpec == DayInit /\ [][DayNext]_vars

\* the meals of the day plan whose recipe_id matches a recipe of the list
C22_Matched == {i \in 1..Len(dPlan) :
                  /\ dPlan[i].recipe_id # Null
                  /\ \E j \in 1..Len(dRecipes) : dRecipes[j].id = dPlan[i].recipe_id[1]}

\* the field of the recipe that the i-th meal refers to, 0 when null
C22_Field(i, k) ==
    LET r == CHOOSE r \in {dRecipes[j] : j \in 1..Len(dRecipes)} : r.id = dPlan[i].recipe_id[1]
    IN  IF r[k] = Null THEN 0 ELSE r[k][1]

RECURSIVE C22_Sum(_, _)
C22_Sum(S, k) ==
    IF S = {} THEN 0
    ELSE LET i == CHOOSE i \in S : TRUE IN C22_Field(i, k) + C22_Sum(S \ {i}, k)

\* C22: getDayNutrition returns, for each of the eight fields, the sum of the
\* field over exactly the meals whose recipe_id matches a recipe of the list;
\* other meals contribute nothing and a null field counts as 0.
C22_DayTotals ==
    dOut # Null =>
        /\ DOMAIN dOut[1] = NutritionKeys
        /\ \A k \in NutritionKeys : dOut[1][k] = C22_Sum(C22_Matched, k)

\* a day with an unmatched meal before a matched one whose recipe has a null field
C22_Witness ==
    /\ dOut # Null
    /\ Len(dPlan) = 2
    /\ dPlan[1].recipe_id \in {Null, Some(""), Some("r9")}
    /\ dPlan[2].recipe_id = Some("r2")
    /\ Len(dRecipes) = 2
    /\ dOut[1].calories = 250 /\ dOut[1].protein_g = 0

(***************************************************************************)
(* hooks/useWeightLog.ts.  The hook's state is logs, loading and error;    *)
(* weight_logs is the backend table (one row per date for the user, the    *)
(* upsert's conflict target).  Every call of the hook is an entry of wOps: *)
(* it is sent, the backend answers it (acting on the table at that         *)
(* moment), and the call's continuation after the await then runs.  Dates  *)
(* are day numbers, so that localeCompare on 'YYYY-MM-DD' is their order.  *)
(* The session is present.                                                 *)
(***************************************************************************)
WRow(id, date, weight) == [id |-> id, date |-> date, weight |-> weight]

WOp(kind, id, date, weight) ==
    [kind |-> kind, id |-> id, date |-> date, weight |-> weight, st |-> "sent",
     err |-> Null, data |-> <<>>, delMsg |-> Null]

RECURSIVE SortByDateDesc(_)
\* arr.sort((a, b) => b.date.localeCompare(a.date)), a stable sort
SortByDateDesc(arr) ==
    IF arr = <<>> THEN <<>>
    ELSE LET top == CHOOSE i \in 1..Len(arr) :
                       /\ \A j \in 1..Len(arr) : arr[j].date <= arr[i].date
                       /\ \A j \in 1..(i - 1) : arr[j].date < arr[i].date
         IN  <<arr[top]>> \o SortByDateDesc(SubSeq(arr, 1, top - 1) \o SubSeq(arr, top + 1, Len(arr)))

RECURSIVE RowsByDateDesc(_)
\* .order('date', { ascending: false }) over the rows of the table
RowsByDateDesc(rows) ==
    IF rows = {} THEN <<>>
    ELSE LET top == CHOOSE r \in rows : \A q \in rows : q.date <= r.date
         IN  <<top>> \o RowsByDateDesc(rows \ {top})

LogLimit == 10

\* arr.slice(0, n)
Slice(arr, n) == SubSeq(arr, 1, Min(n, Len(arr)))

\* the select of fetchLogs: .order('date', { ascending: false }).limit(10)
selectLogs(db) == Slice(RowsByDateDesc(db), LogLimit)

logsAfterLogNoFilter(prev, date, newLog) ==
    Slice(SortByDateDesc(<<newLog>> \o prev), LogLimit)
\* setLogs(prev => [newLog, ...prev.filter(l => l.date !== date)].sort(...).slice(0, 10))
logsAfterLog(prev, date, newLog) ==
    Slice(SortByDateDesc(<<newLog>> \o SelectSeq(prev, LAMBDA l : l.date # date)), LogLimit)

\* setLogs(prev => prev.filter(l => l.id !== id))
logsWithout(prev, id) == SelectSeq(prev, LAMBDA l : l.id # id)

WFetchError == "fetch failed"
WUpsertError == "conflict error"
WDeleteError == "delete forbidden"

MaxWOps == 3

\* useEffect(() => { fetchLogs() }, [fetchLogs]) and fetchLogs up to its await
WMount ==
    /\ wOps = <<>>
    /\ wLoading' = TRUE
    /\ wError' = Null
    /\ wOps' = <<WOp("fetch", 0, 0, 0)>>
    /\ UNCHANGED <<wLogs, wDb, wNext, edgeVars, dayVars, mealVars, shopVars>>

\* the backend answers the query of fetchLogs (the first one or a refetch)
WBackendSelect(i) ==
    /\ i \in 1..Len(wOps)
    /\ \/ wOps[i].kind = "fetch" /\ wOps[i].st = "sent"
       \/ wOps[i].kind = "delete" /\ wOps[i].st = "refetching"
    /\ \E failed \in BOOLEAN :
          wOps' = [wOps EXCEPT ![i].st = IF wOps[i].kind = "fetch" THEN "answered" ELSE "refetched",
                               ![i].err = IF failed THEN Some(WFetchError) ELSE Null,
                               ![i].data = IF failed THEN <<>> ELSE selectLogs(wDb)]
    /\ UNCHANGED <<wLogs, wLoading, wError, wDb, wNext, edgeVars, dayVars, mealVars, shopVars>>

\* fetchLogs after its await
WFetchSettle(i) ==
    /\ i \in 1..Len(wOps)
    /\ wOps[i].kind = "fetch" /\ wOps[i].st = "answered"
    /\ IF wOps[i].err # Null THEN wError' = wOps[i].err /\ wLogs' = wLogs
       ELSE wLogs' = wOps[i].data /\ wError' = wError
    /\ wLoading' = FALSE
    /\ wOps' = [wOps EXCEPT ![i].st = "done"]
    /\ UNCHANGED <<wDb, wNext, edgeVars, dayVars, mealVars, shopVars>>

\* logWeight(date, weight, unit) up to its await
WLogCall(date, weight) ==
    /\ wOps # <<>> /\ Len(wOps) < MaxWOps
    /\ wError' = Null
    /\ wOps' = Append(wOps, WOp("log", 0, date, weight))
    /\ UNCHANGED <<wLogs, wLoading, wDb, wNext, edgeVars, dayVars, mealVars, shopVars>>

\* the backend answers the upsert on (user_id, date): the row, or an error
WBackendUpsert(i) ==
    /\ i \in 1..Len(wOps)
    /\ wOps[i].kind = "log" /\ wOps[i].st = "sent"
    /\ \/ /\ wOps' = [wOps EXCEPT ![i].st = "answered", ![i].err = Some(WUpsertError)]
          /\ UNCHANGED <<wDb, wNext>>
       \/ LET old == {r \in wDb : r.date = wOps[i].date}
              row == WRow(IF old = {} THEN wNext ELSE (CHOOSE r \in old : TRUE).id,
                          wOps[i].date, wOps[i].weight)
          IN  /\ wDb' = (wDb \ old) \cup {row}
              /\ wNext' = IF old = {} THEN wNext + 1 ELSE wNext
              /\ wOps' = [wOps EXCEPT ![i].st = "answered", ![i].data = <<row>>]
    /\ UNCHANGED <<wLogs, wLoading, wError, edgeVars, dayVars, mealVars, shopVars>>

\* logWeight after its await
WLogSettle(i) ==
    /\ i \in 1..Len(wOps)
    /\ wOps[i].kind = "log" /\ wOps[i].st = "answered"
    /\ IF wOps[i].err # Null THEN wError' = wOps[i].err /\ wLogs' = wLogs
       ELSE wLogs' = logsAfterLog(wLogs, wOps[i].date, wOps[i].data[1]) /\ wError' = wError
    /\ wOps' = [wOps EXCEPT ![i].st = "done"]
    /\ UNCHANGED <<wLoading, wDb, wNext, edgeVars, dayVars, mealVars, shopVars>>

\* deleteLog(id) up to its await, for an entry the list shows
WDeleteCall(id) ==
    /\ wOps # <<>> /\ Len(wOps) < MaxWOps
    /\ \E k \in 1..Len(wLogs) : wLogs[k].id = id
    /\ wLogs' = logsWithout(wLogs, id)
    /\ wOps' = Append(wOps, WOp("delete", id, 0, 0))
    /\ UNCHANGED <<wLoading, wError, wDb, wNext, edgeVars, dayVars, mealVars, shopVars>>

\* the backend answers the delete: the row is gone, or an error and the row stays
WBackendDelete(i) ==
    /\ i \in 1..Len(wOps)
    /\ wOps[i].kind = "delete" /\ wOps[i].st = "sent"
    /\ \/ /\ wOps' = [wOps EXCEPT ![i].st = "answered", ![i].err = Some(WDeleteError)]
          /\ wDb' = wDb
       \/ /\ wOps' = [wOps EXCEPT ![i].st = "answered"]
          /\ wDb' = {r \in wDb : r.id # wOps[i].id}
    /\ UNCHANGED <<wLogs, wLoading, wError, wNext, edgeVars, dayVars, mealVars, shopVars>>

\* deleteLog after its await: done, or msg kept and fetchLogs() run up to its await
WDeleteSettle(i) ==
    /\ i \in 1..Len(wOps)
    /\ wOps[i].kind = "delete" /\ wOps[i].st = "answered"
    /\ IF wOps[i].err = Null
       THEN /\ wOps' = [wOps EXCEPT ![i].st = "done"]
            /\ UNCHANGED <<wLoading, wError>>
       ELSE /\ wOps' = [wOps EXCEPT ![i].st = "refetching", ![i].delMsg = wOps[i].err,
                                    ![i].err = Null]
            /\ wLoading' = TRUE
            /\ wError' = Null
    /\ UNCHANGED <<wLogs, wDb, wNext, edgeVars, dayVars, mealVars, shopVars>>

\* the awaited fetchLogs() finishes and deleteLog resumes with setError(msg)
WRefetchSettle(i) ==
    /\ i \in 1..Len(wOps)
    /\ wOps[i].kind = "delete" /\ wOps[i].st = "refetched"
    /\ wLogs' = IF wOps[i].err # Null THEN wLogs ELSE wOps[i].data
    /\ wLoading' = FALSE
    /\ wError' = wOps[i].delMsg
    /\ wOps' = [wOps EXCEPT ![i].st = "done"]
    /\ UNCHANGED <<wDb, wNext, edgeVars, dayVars, mealVars, shopVars>>

WDates == {4, 5, 13}
WWeights == {74}
\* the dates of the entries the user deletes
WDeleteDates == {3, 5, 13}

\* the table when the hook mounts: rows on the given dates, 75 kg each
WTable(dates) == {WRow(d, d, 75) : d \in dates}
WTables == {WTable({3, 5}), WTable(2..12)}

WeightInit ==
    /\ wLogs = <<>> /\ wLoading = FALSE /\ wError = Null
    /\ wDb \in WTables
    /\ wOps = <<>>
    /\ wNext = 101
    /\ HandlerIdle /\ DayIdle /\ MealIdle /\ ShopIdle

WeightNext ==
    \/ WMount
    \/ \E i \in 1..Len(wOps) : WBackendSelect(i)
    \/ \E i \in 1..Len(wOps) : WFetchSettle(i)
    \/ \E d \in WDates, w \in WWeights : WLogCall(d, w)
    \/ \E i \in 1..Len(wOps) : WBackendUpsert(i)
    \/ \E i \in 1..Len(wOps) : WLogSettle(i)
    \/ \E k \in 1..Len(wLogs) : wLogs[k].date \in WDeleteDates /\ WDeleteCall(wLogs[k].id)
    \/ \E i \in 1..Len(wOps) : WBackendDelete(i)
    \/ \E i \in 1..Len(wOps) : WDeleteSettle(i)
    \/ \E i \in 1..Len(wOps) : WRefetchSettle(i)

WeightSpec == WeightInit /\ [][WeightNext]_vars

\* the i-th call is a logWeight whose continuation runs in this step after a
\* successful upsert
C23_LogSucceeds(i) ==
    /\ i \in 1..Len(wOps)
    /\ wOps[i].kind = "log" /\ wOps[i].st = "answered" /\ wOps[i].err = Null
    /\ wOps'[i].st = "done"

C23_WellFormed(logs) ==
    /\ \A i, j \in 1..Len(logs) : i < j => logs[i].date > logs[j].date
    /\ Len(logs) <= 10

\* C23: after any sequence of successful logWeight calls on a fetched list,
\* logs holds at most one entry per date (the newly logged entry in place of an
\* earlier one for its date), is sorted by date descending and has at most 10
\* entries.
C23_LogsWellFormed ==
    /\ [](C23_WellFormed(wLogs))
    /\ [][\A i \in 1..Len(wOps) :
             C23_LogSucceeds(i) =>
                 \A k \in 1..Len(wLogs') :
                     wLogs'[k].date = wOps[i].date => wLogs'[k] = wOps[i].data[1]]_vars

\* a full list took a newer entry, and an entry was logged again on its date
C23_Witness ==
    /\ Len(wLogs) = 10
    /\ wLogs[1].date = 13 /\ wLogs[1].weight # 75
    /\ \E k \in 1..Len(wLogs) : wLogs[k].date = 5 /\ wLogs[k].weight # 75
    /\ \A i \in 1..Len(wOps) : wOps[i].st = "done" /\ wOps[i].err = Null

C24_Ids(logs) == {logs[k].id : k \in 1..Len(logs)}

\* this step is the call deleteLog(id), up to its await
C24_Called(id) ==
    /\ Len(wOps') = Len(wOps) + 1
    /\ wOps'[Len(wOps')].kind = "delete" /\ wOps'[Len(wOps')].id = id

\* this step is the continuation of the i-th call, a deleteLog, in state st
C24_Resumes(i, st) ==
    /\ wOps[i].kind = "delete" /\ wOps[i].st = st
    /\ wOps'[i].st = "done"

C24_Removed ==
    \A id \in C24_Ids(wLogs) : C24_Called(id) => id \notin C24_Ids(wLogs')
C24_StaysRemoved ==
    \A i \in 1..Len(wOps) : C24_Resumes(i, "answered") => wOps[i].id \notin C24_Ids(wLogs')
C24_Restored ==
    \A i \in 1..Len(wOps) :
        C24_Resumes(i, "refetched") =>
            /\ wOps[i].id \in C24_Ids(wLogs')
            /\ wError' = wOps[i].delMsg /\ wError' # Null

\* C24: deleteLog(id) removes the entry from logs before the backend delete
\* resolves; if the delete succeeds the entry stays removed; if it fails the
\* logs are refetched, restoring the entry, and once the refetch has completed
\* error holds the delete failure's message.
C24_DeleteLog == [][C24_Removed /\ C24_StaysRemoved /\ C24_Restored]_vars

(***************************************************************************)
(* hooks/useMealPlan.ts.  The hook's state is plan, loading, saving and    *)
(* error; meal_plans is the backend table, with its unique index on        *)
(* (user_id, date, meal_type).  A slot is a (date, meal type) pair of the   *)
(* displayed week; a meal is its row id and its name (note and recipe_id   *)
(* travel with the name).  A call reads `plan` when it is made and keeps   *)
(* what it read (`existing`) across its await.  The session is present.    *)
(***************************************************************************)
MSlots == {"mon/breakfast", "mon/dinner"}
MNames == {"Soup", "Tacos"}

MMeal(id, name) == [id |-> id, name |-> name]
MRow(id, slot, name) == [id |-> id, slot |-> slot, name |-> name]

MOp(kind, slot, name, existing) ==
    [kind |-> kind, slot |-> slot, name |-> name, existing |-> existing, st |-> "sent",
     err |-> Null, data |-> <<>>]

EmptyPlan == [s \in MSlots |-> Null]

\* rowsToWeekPlan(rows)
rowsToWeekPlan(rows) ==
    [s \in MSlots |->
        IF \E r \in rows : r.slot = s
        THEN LET r == CHOOSE r \in rows : r.slot = s IN Some(MMeal(r.id, r.name))
        ELSE Null]

MFetchError == "fetch failed"
MUpdateError == "update failed"
MInsertError == "duplicate key value violates unique constraint"
MDeleteError == "delete failed"

MaxMOps == 3

\* useEffect(() => { fetchWeek() }, [fetchWeek]) and fetchWeek up to its await
MMount ==
    /\ mOps = <<>>
    /\ mLoading' = TRUE
    /\ mError' = Null
    /\ mOps' = <<MOp("fetch", "", "", Null)>>
    /\ UNCHANGED <<mPlan, mSaving, mDb, mNext, edgeVars, dayVars, weightVars, shopVars>>

\* saveMeal(date, type, name) up to its await: an update of the meal it sees in
\* the slot, an insert when it sees none
MSaveCall(slot, name) ==
    /\ mOps # <<>> /\ Len(mOps) < MaxMOps
    /\ mSaving' = TRUE
    /\ mError' = Null
    /\ mOps' = Append(mOps, MOp(IF mPlan[slot] # Null THEN "update" ELSE "insert",
                                slot, name, mPlan[slot]))
    /\ UNCHANGED <<mPlan, mLoading, mDb, mNext, edgeVars, dayVars, weightVars, shopVars>>

\* deleteMeal(date, type) up to its await; it returns at once on an empty slot
MDeleteCall(slot) ==
    /\ mOps # <<>> /\ Len(mOps) < MaxMOps
    /\ mPlan[slot] # Null
    /\ mSaving' = TRUE
    /\ mError' = Null
    /\ mOps' = Append(mOps, MOp("delete", slot, "", mPlan[slot]))
    /\ UNCHANGED <<mPlan, mLoading, mDb, mNext, edgeVars, dayVars, weightVars, shopVars>>

\* the backend answers the i-th call, acting on meal_plans
MBackend(i) ==
    /\ i \in 1..Len(mOps)
    /\ mOps[i].st = "sent"
    /\ LET op == mOps[i]
           fail(msg) == /\ mOps' = [mOps EXCEPT ![i].st = "answered", ![i].err = Some(msg)]
                        /\ UNCHANGED <<mDb, mNext>>
       IN  CASE op.kind = "fetch" ->
                  \/ fail(MFetchError)
                  \/ /\ mOps' = [mOps EXCEPT ![i].st = "answered", ![i].data = mDb]
                     /\ UNCHANGED <<mDb, mNext>>
             [] op.kind = "update" ->
                  \/ fail(MUpdateError)
                  \/ /\ mDb' = {IF r.id = op.existing[1].id THEN MRow(r.id, r.slot, op.name)
                                ELSE r : r \in mDb}
                     /\ mOps' = [mOps EXCEPT ![i].st = "answered"]
                     /\ mNext' = mNext
             [] op.kind = "insert" ->
                  \/ fail(MInsertError)
                  \/ /\ ~\E r \in mDb : r.slot = op.slot
                     /\ mDb' = mDb \cup {MRow(mNext, op.slot, op.name)}
                     /\ mOps' = [mOps EXCEPT ![i].st = "answered",
                                             ![i].data = {MRow(mNext, op.slot, op.name)}]
                     /\ mNext' = mNext + 1
             [] op.kind = "delete" ->
                  \/ fail(MDeleteError)
                  \/ /\ mDb' = {r \in mDb : r.id # op.existing[1].id}
                     /\ mOps' = [mOps EXCEPT ![i].st = "answered"]
                     /\ mNext' = mNext
    /\ UNCHANGED <<mPlan, mLoading, mSaving, mError, edgeVars, dayVars, weightVars, shopVars>>

\* fetchWeek after its await
MFetchSettle(i) ==
    /\ i \in 1..Len(mOps)
    /\ mOps[i].kind = "fetch" /\ mOps[i].st = "answered"
    /\ IF mOps[i].err # Null THEN mError' = mOps[i].err /\ mPlan' = mPlan
       ELSE mPlan' = rowsToWeekPlan(mOps[i].data) /\ mError' = mError
    /\ mLoading' = FALSE
    /\ mOps' = [mOps EXCEPT ![i].st = "done"]
    /\ UNCHANGED <<mSaving, mDb, mNext, edgeVars, dayVars, weightVars, shopVars>>

\* what the continuation of a successful call writes into its slot of plan
planAfter(op) ==
    CASE op.kind = "update" -> Some(MMeal(op.existing[1].id, op.name))
      [] op.kind = "insert" ->
            LET row == CHOOSE r \in op.data : TRUE IN Some(MMeal(row.id, row.name))
      [] op.kind = "delete" -> Null

MSettleWritesAnyway(i) ==
    /\ i \in 1..Len(mOps)
    /\ mOps[i].kind \in {"update", "insert", "delete"} /\ mOps[i].st = "answered"
    /\ IF mOps[i].err # Null
       THEN /\ mError' = mOps[i].err
            /\ mPlan' = [mPlan EXCEPT ![mOps[i].slot] =
                            IF mOps[i].kind = "delete" THEN Null
                            ELSE Some(MMeal(0, mOps[i].name))]
       ELSE mPlan' = [mPlan EXCEPT ![mOps[i].slot] = planAfter(mOps[i])] /\ mError' = mError
    /\ mSaving' = FALSE
    /\ mOps' = [mOps EXCEPT ![i].st = "done"]
    /\ UNCHANGED <<mLoading, mDb, mNext, edgeVars, dayVars, weightVars, shopVars>>

\* saveMeal or deleteMeal after its await
MSettle(i) ==
    /\ i \in 1..Len(mOps)
    /\ mOps[i].kind \in {"update", "insert", "delete"} /\ mOps[i].st = "answered"
    /\ IF mOps[i].err # Null THEN mError' = mOps[i].err /\ mPlan' = mPlan
       ELSE mPlan' = [mPlan EXCEPT ![mOps[i].slot] = planAfter(mOps[i])] /\ mError' = mError
    /\ mSaving' = FALSE
    /\ mOps' = [mOps EXCEPT ![i].st = "done"]
    /\ UNCHANGED <<mLoading, mDb, mNext, edgeVars, dayVars, weightVars, shopVars>>

MTables == {{}, {MRow(1, "mon/breakfast", "Eggs")},
            {MRow(1, "mon/breakfast", "Eggs"), MRow(2, "mon/dinner", "Stew")}}

MealInit ==
    /\ mPlan = EmptyPlan /\ mLoading = FALSE /\ mSaving = FALSE /\ mError = Null
    /\ mDb \in MTables
    /\ mOps = <<>>
    /\ mNext = 101
    /\ HandlerIdle /\ DayIdle /\ WeightIdle /\ ShopIdle

MealNext ==
    \/ MMount
    \/ \E s \in MSlots, n \in MNames : MSaveCall(s, n)
    \/ \E s \in MSlots : MDeleteCall(s)
    \/ \E i \in 1..Len(mOps) : MBackend(i)
    \/ \E i \in 1..Len(mOps) : MFetchSettle(i)
    \/ \E i \in 1..Len(mOps) : MSettle(i)

MealSpec == MealInit /\ [][MealNext]_vars

\* this step is a call of saveMeal or deleteMeal, up to its await
C25_Called ==
    /\ Len(mOps') = Len(mOps) + 1
    /\ mOps'[Len(mOps')].kind \in {"update", "insert", "delete"}

\* this step is the return of the i-th call, whose backend request failed
C25_FailsAt(i) ==
    /\ mOps[i].kind \in {"update", "insert", "delete"}
    /\ mOps[i].st = "answered" /\ mOps[i].err # Null
    /\ mOps'[i].st = "done"

\* C25: when the backend update, insert or delete of saveMeal or deleteMeal
\* fails, the call leaves plan exactly as it was, error holds the backend's
\* message and saving is false when the call returns.
C25_FailureLeavesPlan ==
    [][/\ C25_Called => mPlan' = mPlan
       /\ \A i \in 1..Len(mOps) :
             C25_FailsAt(i) =>
                 /\ mPlan' = mPlan
                 /\ mError' = mOps[i].err /\ mError' # Null
                 /\ mSaving' = FALSE]_vars

\* an update, an insert or a delete has failed and the slot shows what it showed
C25_Witness ==
    /\ Len(mOps) = 2
    /\ mOps[1].st = "done" /\ mOps[1].err = Null
    /\ mOps[2].kind \in {"update", "insert", "delete"}
    /\ mOps[2].st = "done" /\ mOps[2].err # Null
    /\ mError = mOps[2].err
    /\ ~mSaving
    /\ mPlan = rowsToWeekPlan(mDb)

\* this step is a saveMeal that issues an insert for the slot
C28_InsertIssued(slot) ==
    /\ Len(mOps') = Len(mOps) + 1
    /\ mOps'[Len(mOps')].kind = "insert" /\ mOps'[Len(mOps')].slot = slot

\* C28: saveMeal issues an insert for a slot only when no row exists for the
\* slot, and under any interleaving of overlapping saveMeal calls at most one
\* insert is issued for it.
C28_OneInsertPerSlot ==
    [][\A slot \in MSlots :
          C28_InsertIssued(slot) =>
              /\ ~\E r \in mDb : r.slot = slot
              /\ ~\E i \in 1..Len(mOps) :
                     mOps[i].kind = "insert" /\ mOps[i].slot = slot /\ mOps[i].st # "done"]_vars

(***************************************************************************)
(* hooks/useShoppingList.ts.  The hook's state is items, loading and       *)
(* error; shopping_items is the family's table in the backend, and every   *)
(* committed change of it is sent on the realtime channel, which delivers  *)
(* in order (sEvents).  Other members of the family change the table too.  *)
(* An item is its id and its checked flag (name, quantity and added_by     *)
(* travel with the id); rows are created in id order.  familyId and the    *)
(* session are present.                                                    *)
(***************************************************************************)
SItem(id, checked) == [id |-> id, checked |-> checked]

\* a call: its arguments, where it stands, the backend's answer; `prior` records
\* the flag that items showed for the id when toggleItem was called (the hook
\* itself keeps no such copy)
SOp(kind, id, checked, ids) ==
    [kind |-> kind, id |-> id, checked |-> checked, ids |-> ids, st |-> "sent",
     err |-> Null, data |-> <<>>, prior |-> FALSE]

SEv(type, id, checked) == [type |-> type, id |-> id, checked |-> checked]

RECURSIVE RowsByCreation(_)
\* .order('created_at') over the rows of the table
RowsByCreation(rows) ==
    IF rows = {} THEN <<>>
    ELSE LET first == CHOOSE r \in rows : \A q \in rows : r.id <= q.id
         IN  <<first>> \o RowsByCreation(rows \ {first})

RECURSIVE DeleteEvents(_)
DeleteEvents(rows) ==
    IF rows = {} THEN <<>>
    ELSE LET first == CHOOSE r \in rows : \A q \in rows : r.id <= q.id
         IN  <<SEv("DELETE", first.id, FALSE)>> \o DeleteEvents(rows \ {first})

\* prev.map(i => i.id === id ? { ...i, checked } : i)
setChecked(prev, id, checked) ==
    [k \in 1..Len(prev) |-> IF prev[k].id = id THEN SItem(id, checked) ELSE prev[k]]

\* prev.filter(i => i.id !== id)
itemsWithout(prev, id) == SelectSeq(prev, LAMBDA i : i.id # id)

SFetchError == "fetch failed"
SInsertError == "insert failed"
SUpdateError == "update failed"
SDeleteError == "delete failed"

MaxSOps == 3
MaxOther == 1

\* the initial fetch effect up to its then()
SMount ==
    /\ sOps = <<>>
    /\ sLoading' = TRUE
    /\ sOps' = <<SOp("fetch", 0, FALSE, {})>>
    /\ UNCHANGED <<sItems, sError, sDb, sEvents, sNext, sOther>>
    /\ UNCHANGED <<edgeVars, dayVars, weightVars, mealVars>>

\* the then() of the initial fetch
SFetchSettle(i) ==
    /\ i \in 1..Len(sOps)
    /\ sOps[i].kind = "fetch" /\ sOps[i].st = "answered"
    /\ IF sOps[i].err # Null THEN sError' = sOps[i].err /\ sItems' = sItems
       ELSE sItems' = sOps[i].data /\ sError' = sError
    /\ sLoading' = FALSE
    /\ sOps' = [sOps EXCEPT ![i].st = "done"]
    /\ UNCHANGED <<sDb, sEvents, sNext, sOther>>
    /\ UNCHANGED <<edgeVars, dayVars, weightVars, mealVars>>

\* the channel delivers its next event to the INSERT, UPDATE or DELETE handler
SEvent ==
    /\ sEvents # <<>>
    /\ LET e == Head(sEvents)
       IN  sItems' =
             CASE e.type = "INSERT" ->
                    IF \E k \in 1..Len(sItems) : sItems[k].id = e.id THEN sItems
                    ELSE Append(sItems, SItem(e.id, e.checked))
               [] e.type = "UPDATE" -> setChecked(sItems, e.id, e.checked)
               [] e.type = "DELETE" -> itemsWithout(sItems, e.id)
    /\ sEvents' = Tail(sEvents)
    /\ UNCHANGED <<sError, sLoading, sDb, sOps, sNext, sOther>>
    /\ UNCHANGED <<edgeVars, dayVars, weightVars, mealVars>>

\* addItem(name, quantity) with a non-blank name, up to its await
SAddCall ==
    /\ sOps # <<>> /\ Len(sOps) < MaxSOps
    /\ sError' = Null
    /\ sOps' = Append(sOps, SOp("insert", 0, FALSE, {}))
    /\ UNCHANGED <<sItems, sLoading, sDb, sEvents, sNext, sOther>>
    /\ UNCHANGED <<edgeVars, dayVars, weightVars, mealVars>>

\* toggleItem(id, checked) up to its await
SToggleCall(id, checked) ==
    /\ sOps # <<>> /\ Len(sOps) < MaxSOps
    /\ sItems' = setChecked(sItems, id, checked)
    /\ sOps' = Append(sOps, [SOp("update", id, checked, {}) EXCEPT
                                !.prior = \E k \in 1..Len(sItems) :
                                             sItems[k].id = id /\ sItems[k].checked])
    /\ UNCHANGED <<sError, sLoading, sDb, sEvents, sNext, sOther>>
    /\ UNCHANGED <<edgeVars, dayVars, weightVars, mealVars>>

\* deleteItem(id) up to its await
SDeleteCall(id) ==
    /\ sOps # <<>> /\ Len(sOps) < MaxSOps
    /\ sItems' = itemsWithout(sItems, id)
    /\ sOps' = Append(sOps, SOp("delete", 0, FALSE, {id}))
    /\ UNCHANGED <<sError, sLoading, sDb, sEvents, sNext, sOther>>
    /\ UNCHANGED <<edgeVars, dayVars, weightVars, mealVars>>

\* clearChecked() up to its await; it returns at once when nothing is checked
SClearCall ==
    /\ sOps # <<>> /\ Len(sOps) < MaxSOps
    /\ \E k \in 1..Len(sItems) : sItems[k].checked
    /\ sItems' = SelectSeq(sItems, LAMBDA i : ~i.checked)
    /\ sOps' = Append(sOps, SOp("delete", 0, FALSE,
                                {sItems[k].id : k \in {j \in 1..Len(sItems) : sItems[j].checked}}))
    /\ UNCHANGED <<sError, sLoading, sDb, sEvents, sNext, sOther>>
    /\ UNCHANGED <<edgeVars, dayVars, weightVars, mealVars>>

\* the backend answers the i-th call, acting on shopping_items and publishing
\* the change
SBackend(i) ==
    /\ i \in 1..Len(sOps)
    /\ sOps[i].st = "sent"
    /\ LET op == sOps[i]
           fail(msg) == /\ sOps' = [sOps EXCEPT ![i].st = "answered", ![i].err = Some(msg)]
                        /\ UNCHANGED <<sDb, sEvents, sNext>>
       IN  CASE op.kind = "fetch" ->
                  \/ fail(SFetchError)
                  \/ /\ sOps' = [sOps EXCEPT ![i].st = "answered",
                                             ![i].data = RowsByCreation(sDb)]
                     /\ UNCHANGED <<sDb, sEvents, sNext>>
             [] op.kind = "insert" ->
                  \/ fail(SInsertError)
                  \/ /\ sDb' = sDb \cup {SItem(sNext, FALSE)}
                     /\ sEvents' = Append(sEvents, SEv("INSERT", sNext, FALSE))
                     /\ sNext' = sNext + 1
                     /\ sOps' = [sOps EXCEPT ![i].st = "answered"]
             [] op.kind = "update" ->
                  \/ fail(SUpdateError)
                  \/ /\ sDb' = {IF r.id = op.id THEN SItem(r.id, op.checked) ELSE r : r \in sDb}
                     /\ sEvents' = IF \E r \in sDb : r.id = op.id
                                   THEN Append(sEvents, SEv("UPDATE", op.id, op.checked))
                                   ELSE sEvents
                     /\ sNext' = sNext
                     /\ sOps' = [sOps EXCEPT ![i].st = "answered"]
             [] op.kind = "delete" ->
                  \/ fail(SDeleteError)
                  \/ /\ sDb' = {r \in sDb : r.id \notin op.ids}
                     /\ sEvents' = sEvents \o DeleteEvents({r \in sDb : r.id \in op.ids})
                     /\ sNext' = sNext
                     /\ sOps' = [sOps EXCEPT ![i].st = "answered"]
    /\ UNCHANGED <<sItems, sError, sLoading, sOther>>
    /\ UNCHANGED <<edgeVars, dayVars, weightVars, mealVars>>

\* addItem, toggleItem, deleteItem or clearChecked after its await
SSettle(i) ==
    /\ i \in 1..Len(sOps)
    /\ sOps[i].kind \in {"insert", "update", "delete"} /\ sOps[i].st = "answered"
    /\ sError' = IF sOps[i].err # Null THEN sOps[i].err ELSE sError
    /\ sItems' = IF sOps[i].err # Null /\ sOps[i].kind = "update"
                 THEN setChecked(sItems, sOps[i].id, ~sOps[i].checked)
                 ELSE sItems
    /\ sOps' = [sOps EXCEPT ![i].st = "done"]
    /\ UNCHANGED <<sLoading, sDb, sEvents, sNext, sOther>>
    /\ UNCHANGED <<edgeVars, dayVars, weightVars, mealVars>>

\* another member of the family adds an item, or flips or deletes one
SOtherMember ==
    /\ sOther < MaxOther
    /\ sOther' = sOther + 1
    /\ \/ /\ sDb' = sDb \cup {SItem(sNext, FALSE)}
          /\ sEvents' = Append(sEvents, SEv("INSERT", sNext, FALSE))
          /\ sNext' = sNext + 1
       \/ \E r \in sDb :
             /\ sDb' = (sDb \ {r}) \cup {SItem(r.id, ~r.checked)}
             /\ sEvents' = Append(sEvents, SEv("UPDATE", r.id, ~r.checked))
             /\ sNext' = sNext
       \/ \E r \in sDb :
             /\ sDb' = sDb \ {r}
             /\ sEvents' = Append(sEvents, SEv("DELETE", r.id, FALSE))
             /\ sNext' = sNext
    /\ UNCHANGED <<sItems, sError, sLoading, sOps>>
    /\ UNCHANGED <<edgeVars, dayVars, weightVars, mealVars>>

STables == {{}, {SItem(1, FALSE)}, {SItem(1, TRUE), SItem(2, FALSE)}}

ShopInit ==
    /\ sItems = <<>> /\ sLoading = FALSE /\ sError = Null
    /\ sDb \in STables
    /\ sOps = <<>> /\ sEvents = <<>>
    /\ sNext = 101 /\ sOther = 0
    /\ HandlerIdle /\ DayIdle /\ WeightIdle /\ MealIdle

ShopNext ==
    \/ SMount
    \/ \E i \in 1..Len(sOps) : SFetchSettle(i)
    \/ SEvent
    \/ SAddCall
    \/ \E k \in 1..Len(sItems), c \in BOOLEAN : SToggleCall(sItems[k].id, c)
    \/ \E k \in 1..Len(sItems) : SDeleteCall(sItems[k].id)
    \/ SClearCall
    \/ \E i \in 1..Len(sOps) : SBackend(i)
    \/ \E i \in 1..Len(sOps) : SSettle(i)
    \/ SOtherMember

ShopSpec == ShopInit /\ [][ShopNext]_vars

\* this step is the return of the i-th call, a toggleItem whose update failed
C29_ToggleFailsAt(i) ==
    /\ sOps[i].kind = "update"
    /\ sOps[i].st = "answered" /\ sOps[i].err # Null
    /\ sOps'[i].st = "done"

\* C29: after a toggleItem(id, checked) whose backend update fails, the item's
\* checked flag in items equals the value it had immediately before that call,
\* for every prior value of the flag and under any interleaving with realtime
\* UPDATE events and other toggles of the item.
C29_FailedToggleRestores ==
    [][\A i \in 1..Len(sOps) :
          C29_ToggleFailsAt(i) =>
              \A k \in 1..Len(sItems') :
                  sItems'[k].id = sOps[i].id => sItems'[k].checked = sOps[i].prior]_vars

\* nothing is in flight: the initial fetch has completed, every call has
\* returned and every realtime event has been delivered
C30_Quiet ==
    /\ sOps # <<>>
    /\ \A i \in 1..Len(sOps) : sOps[i].st = "done"
    /\ sOps[1].err = Null
    /\ sEvents = <<>>

\* C30: once the initial fetch has completed, no local operation is in flight
\* and every realtime event has been delivered, the ids in items are the ids of
\* the family's rows in the backend.
C30_ItemsMatchBackend ==
    C30_Quiet => {sItems[k].id : k \in 1..Len(sItems)} = {r.id : r \in sDb}

(***************************************************************************)
(* TwinSpec: two invocations of the serve handler for the same request.    *)
(* Everything the handler writes is local to the invocation (the module    *)
(* level holds constants only: corsHeaders, ok, err, the unit, density and *)
(* nutrient tables), so a second invocation is a second copy of the        *)
(* handler's and the aggregator's variables.  The variables hold the       *)
(* invocation that is running and `twin` the one that is suspended at an   *)
(* await; Switch passes control.  Both fetch the same page; everything     *)
(* else the services answer is free.                                       *)
(***************************************************************************)
TwinState ==
    [pc |-> pc, req |-> req, page |-> page, recipe |-> recipe, extracted |-> extracted,
     pending |-> pending, resp |-> resp, log |-> log, aPc |-> aPc, aIngs |-> aIngs,
     aServ |-> aServ, aParsed |-> aParsed, aLookups |-> aLookups, aOrder |-> aOrder,
     aOut |-> aOut]

\* the pages of TwinSpec: a Recipe node that is aggregated, one that carries
\* nutrition, one that throws, a page with valid microdata, a page with headings
\* over two ingredients and a page with nothing
TwinPage(p) ==
    IF HasRecipe(p.scripts)
    THEN /\ p.scripts = <<"recipe">> /\ p.micro = Null
         /\ p.node.name = Some("Soup")
         /\ p.node.recipeYield = Some(<<SD(4), STxt>>)
         /\ p.node.recipeInstructions.shape = "array"
         /\ \/ p.node.recipeIngredient.shape = "array" /\ p.node.nutrition = Null
            \/ p.node.recipeIngredient.shape = "array" /\ hasNutritionLd(p.node.nutrition)
                  /\ p.node.nutrition[1].calories # Null
            \/ p.node.recipeIngredient.shape = "string" /\ p.node.nutrition = Null
    ELSE /\ p.scripts = <<>> /\ p.plugins = NoPlugins
         /\ \/ p.heading = NoHeading /\ p.micro \in {Null, MicroValid}
            \/ p.heading.ingredients = <<LineFlour, LineMinus>> /\ p.micro = Null

\* the page at the URL is the same for both invocations
TwinWorld ==
    page # Null => TwinPage(page) /\ (twin.page # Null => page = twin.page)

\* the running invocation is suspended at its await and the other one resumes
Switch ==
    /\ twin' = TwinState
    /\ pc' = twin.pc /\ req' = twin.req /\ page' = twin.page /\ recipe' = twin.recipe
    /\ extracted' = twin.extracted /\ pending' = twin.pending /\ resp' = twin.resp
    /\ log' = twin.log /\ aPc' = twin.aPc /\ aIngs' = twin.aIngs /\ aServ' = twin.aServ
    /\ aParsed' = twin.aParsed /\ aLookups' = twin.aLookups /\ aOrder' = twin.aOrder
    /\ aOut' = twin.aOut
    /\ UNCHANGED <<parseVars, dayVars, weightVars, mealVars, shopVars>>

TwinInit ==
    /\ pc = "start"
    /\ req \in Requests
    /\ page = Null /\ recipe = Null /\ extracted = Null /\ pending = Null
    /\ resp = Null /\ log = <<>>
    /\ aPc = "idle" /\ aIngs = <<>> /\ aServ = Null /\ aParsed = <<>> /\ aLookups = <<>>
    /\ aOrder = <<>> /\ aOut = Null
    /\ pLine = <<>> /\ pOut = Null
    /\ DayIdle /\ WeightIdle /\ MealIdle /\ ShopIdle
    /\ twin = TwinState

TwinNext ==
    \/ Next /\ TwinWorld'
    \/ Switch

TwinSpec == TwinInit /\ [][TwinNext]_vars

\* what the services answered to an invocation: the page, the strategies' and
\* the API's results in the log, and each lookup's result
C21_Answers(s) ==
    <<s.req, s.page, s.log, [i \in 1..Len(s.aLookups) |-> s.aLookups[i].val]>>

\* C21: two runs of the handler on the same URL, with the same page and the
\* same results of the external calls, produce identical responses, whether
\* they run one after the other or interleaved.
C21_SameResponse ==
    (resp # Null /\ twin.resp # Null /\ C21_Answers(TwinState) = C21_Answers(twin))
        => resp = twin.resp

\* two aggregated runs whose lookups settled in different orders
C21_Witness ==
    /\ resp # Null /\ twin.resp # Null
    /\ C21_Answers(TwinState) = C21_Answers(twin)
    /\ Len(aOrder) = 2 /\ aOrder # twin.aOrder
    /\ aLookups[1].val # Null /\ aLookups[2].val # Null /\ aLookups[1].val # aLookups[2].val
    /\ "calories" \in DOMAIN resp[1].body

====
